---- MODULE Spec2Model ----
(***************************************************************************)
(* ninjafire: the in-memory entity graph and relationship-consistency      *)
(* engine (Model, the attr / belongsTo / hasMany handlers, setInverse and  *)
(* the persistence planner _pathsToSave), modelled as a state machine.     *)
(*                                                                         *)
(* Every value of the program is a string here: a record id is "1", "2",   *)
(* ...; JavaScript undefined is "undef", null is "null", true is "true".   *)
(* An entity is the pair <<type, id>> (the key of the identity map).       *)
(***************************************************************************)
EXTENDS Integers, Sequences, FiniteSets, TLC

\* ------------------------------------------------------------------ bounds
\* Number of record ids per model type.
MaxId == 2

Ids == {ToString(i) : i \in 1..MaxId}

\* Firebase returns the keys of a snapshot in key order.
KeyOrder == [i \in 1..MaxId |-> ToString(i)]

Undef == "undef"
Null == "null"
True == "true"
Absent == "absent"
\* an embedded record's payload, as the value of a member of a remote hasMany map
Object == "object"

\* admin.database.ServerValue.TIMESTAMP, and the value the server stores for it
ServerTimestamp == "TIMESTAMP"
ServerTime == "time"

\* what a defaultValue() function returns, serialized
DefaultValue == "default"

\* the Date that defaultValue: () => new Date() returns, and the Date that its
\* serialized form parses to: toUTCString keeps no milliseconds
DefaultDate == "new Date()"
DefaultDateParsed == "Date.parse(default)"

\* values of the other primitive kinds: a number, a boolean, a Date with and
\* without milliseconds, the toUTCString of a Date, and new Date(NaN)
ANumber == "number"
ABoolean == "boolean"
ADate == "Date"
WholeDate == "Date.000"
UTCString == "utc"
InvalidDate == "Invalid Date"

\* values a caller assigns to a scalar attribute
ScalarValues == {"a", "b"}

NoEntity == <<"none", "none">>

\* ------------------------------------------------------------------ schema
Types == {"blog", "user", "post", "photo", "comment", "bad", "embeddedInverse"}

Entities == Types \X Ids

AttrDesc(hasDefault, serverTs) ==
    [kind |-> "attr", target |-> "", inverse |-> "", embedded |-> FALSE,
     hasDefault |-> hasDefault, serverTs |-> serverTs]

BelongsToDesc(target, inverse, embedded) ==
    [kind |-> "belongsTo", target |-> target, inverse |-> inverse, embedded |-> embedded,
     hasDefault |-> FALSE, serverTs |-> FALSE]

HasManyDesc(target, inverse, embedded) ==
    [kind |-> "hasMany", target |-> target, inverse |-> inverse, embedded |-> embedded,
     hasDefault |-> FALSE, serverTs |-> FALSE]

\* inverse = "" stands for options.inverse === undefined
BlogSchema ==
    [name |-> AttrDesc(FALSE, FALSE),
     createdDate |-> AttrDesc(TRUE, FALSE),
     updatedTime |-> AttrDesc(FALSE, TRUE),
     owner |-> BelongsToDesc("user", "blog", FALSE),
     posts |-> HasManyDesc("post", "blog", FALSE)]

UserSchema ==
    [name |-> AttrDesc(FALSE, FALSE),
     blog |-> BelongsToDesc("blog", "owner", FALSE),
     posts |-> HasManyDesc("post", "authors", FALSE)]

PostSchema ==
    [title |-> AttrDesc(FALSE, FALSE),
     blog |-> BelongsToDesc("blog", "posts", FALSE),
     createdBy |-> BelongsToDesc("user", "", FALSE),
     authors |-> HasManyDesc("user", "posts", FALSE),
     heroImage |-> BelongsToDesc("photo", "", TRUE),
     photos |-> HasManyDesc("photo", "", TRUE),
     comments |-> HasManyDesc("comment", "post", FALSE)]

PhotoSchema ==
    [caption |-> AttrDesc(FALSE, FALSE),
     takenBy |-> BelongsToDesc("user", "", FALSE),
     taggedUsers |-> HasManyDesc("user", "", FALSE)]

\* the votes of a comment are left out
CommentSchema ==
    [text |-> AttrDesc(FALSE, FALSE),
     post |-> BelongsToDesc("post", "comments", FALSE)]

\* the models of the failure tests: Bad embeds an EmbeddedInverse with an
\* inverse, and embeds users, which are not embeddable
BadSchema ==
    [aNumber |-> AttrDesc(FALSE, FALSE),
     embeddedInverse |-> BelongsToDesc("embeddedInverse", "related", TRUE),
     invalidEmbedBelongsTo |-> BelongsToDesc("user", "", TRUE),
     invalidEmbedHasMany |-> HasManyDesc("user", "", TRUE)]

\* the inverse it names, 'embedded', is no attribute of Bad
EmbeddedInverseSchema ==
    [related |-> BelongsToDesc("bad", "embedded", FALSE)]

Schema ==
    [t \in Types |->
        CASE t = "blog" -> BlogSchema
          [] t = "user" -> UserSchema
          [] t = "post" -> PostSchema
          [] t = "photo" -> PhotoSchema
          [] t = "comment" -> CommentSchema
          [] t = "bad" -> BadSchema
          [] t = "embeddedInverse" -> EmbeddedInverseSchema]

\* the serializer of an attr attribute
Codec(t, a) ==
    IF a = "createdDate" THEN "Date"
    ELSE IF a \in {"updatedTime", "aNumber"} THEN "Number"
    ELSE "String"

\* typeof value
TypeOf(v) ==
    IF v \in {"a", "b", UTCString, DefaultValue} THEN "string"
    ELSE IF v \in {ANumber, ServerTime} THEN "number"
    ELSE IF v = ABoolean THEN "boolean"
    ELSE "object"

\* serializer.serialize(value) of the serializer of the attribute; the Date
\* serializer calls value.toUTCString() on what is neither number nor string
Serialize(c, v) ==
    IF c = "String" THEN (IF TypeOf(v) = "string" THEN v ELSE "TypeMismatch")
    ELSE IF c = "Number" THEN (IF TypeOf(v) = "number" THEN v ELSE "TypeMismatch")
    ELSE IF TypeOf(v) = "number" THEN UTCString
    ELSE IF TypeOf(v) = "string" THEN v
    ELSE IF v \in {ADate, WholeDate} THEN UTCString
    ELSE IF v = DefaultDate THEN DefaultValue
    ELSE "TypeError"

\* serializer.deserialize(value) of the serializer of the attribute
Deserialize(c, v) ==
    IF c = "String" THEN (IF TypeOf(v) = "string" THEN v ELSE "TypeMismatch")
    ELSE IF c = "Number" THEN (IF TypeOf(v) = "number" THEN v ELSE "TypeMismatch")
    ELSE IF TypeOf(v) = "string"
         THEN (IF v = UTCString THEN WholeDate
               ELSE IF v = DefaultValue THEN DefaultDateParsed
               ELSE InvalidDate)
    ELSE IF TypeOf(v) = "number" THEN ADate
    ELSE "TypeMismatch"

\* static embedded: the model is for embedding within another
EmbeddedType == [t \in Types |-> t \in {"photo", "embeddedInverse"}]

PluralName ==
    [t \in Types |->
        CASE t = "blog" -> "blogs"
          [] t = "user" -> "users"
          [] t = "post" -> "blog/posts"
          [] t = "photo" -> "blog/post/photos"
          [] t = "comment" -> "comments"
          [] t = "bad" -> "bads"
          [] t = "embeddedInverse" -> "bads"]

\* static pathPrefixGroup: the group whose prefix the store must hold, "none"
\* for null
PathPrefixGroup == [t \in Types |-> IF t = "comment" THEN "post" ELSE "none"]

Groups == {"post"}

\* the prefixes a caller registers: store.pathPrefix.post = '/post/<id>'
Prefixes == {<<"post", i>> : i \in Ids}

\* store.pathPrefix of a new store: no group has a prefix
NoPrefix == [g \in Groups |-> <<Undef>>]

AttrsOf(t) == DOMAIN Schema[t]
ScalarAttrs(t) == {a \in AttrsOf(t) : Schema[t][a].kind = "attr"}
BTAttrs(t) == {a \in AttrsOf(t) : Schema[t][a].kind = "belongsTo"}
HMAttrs(t) == {a \in AttrsOf(t) : Schema[t][a].kind = "hasMany"}

\* ------------------------------------------------------------------- state
VARIABLES
    resident,       \* the identity map: the entities store.peekRecord finds
    loading,        \* entities a findRecord is fetching (pending ModelPromise)
    isNew,          \* Model.isNew
    isDeleted,      \* Model.isDeleted
    isSaving,       \* Model.isSaving
    localS,         \* _localAttributes, attr keys
    localBT,        \* _localAttributes, belongsTo keys
    localHM,        \* _localAttributes, hasMany keys
    remoteS,        \* _remoteAttributes, attr keys
    remoteBT,       \* _remoteAttributes, belongsTo keys (embedded: the child's id)
    remoteHM,       \* _remoteAttributes, hasMany keys
    linked,         \* _atomicallyLinked
    embeddedIn,     \* _embeddedIn
    db,             \* the Firebase tree: a set of [path, val] leaves
    pathPrefix,     \* store.pathPrefix: per path prefix group, the prefix registered
    saving,         \* the store._save awaiting its atomic update
    deleting,       \* per entity: the keys a suspended deleteRecord still has to clear
                    \* (keys) and what it read of every key before its first await (read)
    lastOp          \* the last call made and how it ended

vars == <<resident, loading, isNew, isDeleted, isSaving, localS, localBT, localHM,
          remoteS, remoteBT, remoteHM, linked, embeddedIn, db, pathPrefix, saving, deleting,
          lastOp>>

\* get _path() throws when the group of the type has no prefix in the store
PrefixMissing(t) ==
    /\ PathPrefixGroup[t] # "none"
    /\ pathPrefix[PathPrefixGroup[t]] = <<Undef>>

\* a path that leaves the prefix of the group out
PathWithoutPrefix(e) == <<PluralName[e[1]], e[2]>>

\* get _path(): basePath + pathPrefix[group] + /pluralName/id  (basePath is the
\* empty string)
Path(e) ==
    (IF PathPrefixGroup[e[1]] = "none" THEN <<>> ELSE pathPrefix[PathPrefixGroup[e[1]]])
        \o <<PluralName[e[1]], e[2]>>

\* ------------------------------------------------------------------ values
\* A hasMany attribute is an object { id: true | null }.  def = FALSE is
\* undefined, ord lists the keys in insertion order, val gives each id's value.
HMUndef == [def |-> FALSE, ord |-> <<>>, val |-> [i \in Ids |-> Absent]]
HMEmpty == [def |-> TRUE, ord |-> <<>>, val |-> [i \in Ids |-> Absent]]

SeqSet(s) == {s[i] : i \in 1..Len(s)}

\* object[id] = v
HMPut(h, id, v) ==
    [def |-> TRUE,
     ord |-> IF h.val[id] = Absent THEN Append(h.ord, id) ELSE h.ord,
     val |-> [h.val EXCEPT ![id] = v]]

\* the object with the keys of ids (a sequence), each mapped to true
HMOfKeys(keys) ==
    [def |-> TRUE, ord |-> keys,
     val |-> [i \in Ids |-> IF i \in SeqSet(keys) THEN True ELSE Absent]]

\* the ids of a set, in Firebase key order
RECURSIVE SortedFrom(_, _)
SortedFrom(S, i) ==
    IF i > MaxId THEN <<>>
    ELSE (IF KeyOrder[i] \in S THEN <<KeyOrder[i]>> ELSE <<>>) \o SortedFrom(S, i + 1)

Sorted(S) == SortedFrom(S, 1)

RECURSIVE SeqMinus(_, _)
SeqMinus(s, S) ==
    IF s = <<>> THEN <<>>
    ELSE (IF Head(s) \in S THEN <<>> ELSE <<Head(s)>>) \o SeqMinus(Tail(s), S)

\* Object.assign({}, a, b): the keys of a in a's order, then the new keys of b
HMAssign(a, b) ==
    [def |-> TRUE,
     ord |-> a.ord \o SeqMinus(b.ord, SeqSet(a.ord)),
     val |-> [i \in Ids |-> IF b.val[i] # Absent THEN b.val[i] ELSE a.val[i]]]

\* The part of the state a setter can change, threaded through the nested calls.
Cur ==
    [ls |-> localS, lbt |-> localBT, lhm |-> localHM, linked |-> linked,
     emb |-> embeddedIn, loading |-> loading]

Ok(st) == [st |-> st, err |-> "none"]
Throw(st, err) == [st |-> st, err |-> err]

\* store.peekRecord(handlingClass, id) !== null
Peek(t, id) == <<t, id>> \in resident

\* a findRecord that fetches nothing
FindsNothing(st, t, id) == st

\* store.findRecord(recordClass, id): the resident record, or a ModelPromise
\* carrying the id whose fetch is now in flight
FindRecord(st, t, id) ==
    IF Peek(t, id) \/ id \notin Ids THEN st
    ELSE [st EXCEPT !.loading = @ \cup {<<t, id>>}]

\* a link that only the record being set remembers
AtomicallyLinkOneWay(st, e, other) ==
    [st EXCEPT !.linked[e] = @ \cup {other}]

\* no record remembers the link
AtomicallyLinkNobody(st, e, other) == st

\* record._atomicallyLinked.push(otherRecord); otherRecord._atomicallyLinked.push(record)
AtomicallyLink(st, e, other) ==
    [st EXCEPT !.linked = [x \in Entities |->
        (IF x = e THEN @[x] \cup {other} ELSE @[x]) \cup (IF x = other THEN {e} ELSE {})]]

\* ---------------------------------------------------------- belongsTo get
\* belongsTo(...).handler(attribute).get, for a relation that is not embedded.
BelongsToGet(st, e, a) ==
    LET t == Schema[e[1]][a].target IN
    IF isDeleted[e] THEN [st |-> st, err |-> "RecordDeleted", id |-> Null]
    ELSE IF st.lbt[e][a] # Undef
         THEN IF st.lbt[e][a] = Null
              THEN [st |-> st, err |-> "none", id |-> Null]
              ELSE [st |-> FindRecord(st, t, st.lbt[e][a]), err |-> "none", id |-> st.lbt[e][a]]
    ELSE IF remoteBT[e][a] = Undef
         THEN [st |-> st, err |-> "none", id |-> Null]
    ELSE IF Schema[e[1]][a].embedded
         THEN [st |-> [st EXCEPT !.emb[<<t, remoteBT[e][a]>>] = e], err |-> "none", id |-> remoteBT[e][a]]
    ELSE [st |-> FindRecord(st, t, remoteBT[e][a]), err |-> "none", id |-> remoteBT[e][a]]

\* -------------------------------------------- setInverse / belongsTo set
\* a statement that follows another one runs on the state the first left,
\* unless the first threw
Then(r, K(_)) == IF r.err # "none" THEN r ELSE K(r.st)

\* the values assigned to a belongsTo attribute: a Model (with its id and
\* type), an id string, null, or anything else
ModelValue(t, id) == [tag |-> "model", id |-> id, type |-> t]
IdValue(id) == [tag |-> "id", id |-> id, type |-> ""]
NullValue == [tag |-> "null", id |-> Null, type |-> ""]
InvalidValue == [tag |-> "invalid", id |-> Undef, type |-> ""]
\* a ModelPromise: a Promise that carries the id of the record being fetched
PromiseValue(t, id) == [tag |-> "promise", id |-> id, type |-> t]

\* a setter that looks for the related record in _remoteAttributes alone
ExistingRemoteOnly(st, e, a) ==
    IF remoteBT[e][a] # Undef THEN remoteBT[e][a] ELSE Null

\* existingRelatedRecordId: the local value if there is one, else the remote
\* one, else null
ExistingRelatedRecordId(st, e, a) ==
    IF st.lbt[e][a] # Undef THEN st.lbt[e][a]
    ELSE IF remoteBT[e][a] # Undef THEN remoteBT[e][a]
    ELSE Null

\* an inverse that marks the record a member whether it links or unlinks
InverseMemberAlways(link) == True

\* otherRecord._localAttributes[otherAttribute][record.id] = true to link,
\* null to unlink
InverseMember(link) == IF link THEN True ELSE Null

RECURSIVE SetInverse(_, _, _, _, _)
RECURSIVE BelongsToSet(_, _, _, _)

\* case HandlerTypes.belongsTo with link: g is what otherRecord[otherAttribute]
\* read; a holder other than the record is cleared through the setter, then
\* the inverse is written directly
LinkBelongsTo(g, e, other, oa) ==
    IF g.err # "none" THEN Throw(g.st, g.err)
    ELSE Then(IF g.id # Null /\ g.id # e[2]
              THEN BelongsToSet(g.st, other, oa, NullValue)
              ELSE Ok(g.st),
              LAMBDA s : Ok(AtomicallyLink([s EXCEPT !.lbt[other][oa] = e[2]], e, other)))

\* the switch on the handler type of the inverse attribute
InverseOfKind(st, e, other, oa, kind, link) ==
    IF kind = "belongsTo" THEN
        IF link THEN LinkBelongsTo(BelongsToGet(st, other, oa), e, other, oa)
        ELSE Ok(AtomicallyLink([st EXCEPT !.lbt[other][oa] = Null], e, other))
    ELSE IF kind = "hasMany" THEN
        Ok(AtomicallyLink([st EXCEPT !.lhm[other][oa] = HMPut(@, e[2], InverseMember(link))],
                          e, other))
    ELSE Throw(st, "InvalidInverseKind")

\* setInverse(record, attribute, handlingClass, otherRecordId, options, link)
SetInverse(st, e, a, otherId, link) ==
    IF Schema[e[1]][a].inverse = "" THEN Ok(st)
    ELSE IF EmbeddedType[e[1]] THEN Throw(st, "EmbeddedInverseNotAllowed")
    ELSE IF ~Peek(Schema[e[1]][a].target, otherId) THEN Throw(st, "RelatedRecordNotLoaded")
    ELSE IF Schema[e[1]][a].inverse \notin AttrsOf(Schema[e[1]][a].target)
    THEN Throw(st, "InverseAttributeNotFound")
    ELSE InverseOfKind(st, e, <<Schema[e[1]][a].target, otherId>>, Schema[e[1]][a].inverse,
                       Schema[Schema[e[1]][a].target][Schema[e[1]][a].inverse].kind, link)

\* a setter that leaves the inverse of the existing relation alone
UnlinkNothing(st, e, a, existing) == Ok(st)

\* if (existingRelatedRecordId !== null) setInverse(..., false)
UnlinkExisting(st, e, a, existing) ==
    IF existing # Null THEN SetInverse(st, e, a, existing, FALSE) ELSE Ok(st)

\* otherRecord._embeddedIn = record, for a relation that embeds
MarkEmbeddedIn(st, e, a, v) ==
    IF Schema[e[1]][a].embedded /\ v.tag = "model"
    THEN [st EXCEPT !.emb[<<v.type, v.id>>] = e]
    ELSE st

\* the rest of the setter, once the existing relation is unlinked
AssignBelongsTo(st, e, a, v) ==
    IF Schema[e[1]][a].embedded /\ v.tag \in {"id", "invalid"}
    \* otherRecord._embeddedIn = record on a primitive, in strict mode
    THEN Throw(st, "TypeError")
    ELSE IF v.tag = "model" /\ Schema[e[1]][a].embedded /\ ~EmbeddedType[v.type]
    THEN Throw(MarkEmbeddedIn(st, e, a, v), "NotEmbeddable")
    ELSE IF v.tag \in {"model", "id"}
    THEN SetInverse([MarkEmbeddedIn(st, e, a, v) EXCEPT !.lbt[e][a] = v.id], e, a, v.id, TRUE)
    ELSE IF v.tag = "null" THEN Ok([st EXCEPT !.lbt[e][a] = Null])
    ELSE Throw(st, "InvalidRelationValue")

\* belongsTo(...).handler(attribute).set
BelongsToSet(st, e, a, v) ==
    IF isDeleted[e] THEN Throw(st, "RecordDeleted")
    ELSE Then(UnlinkExisting(st, e, a, ExistingRelatedRecordId(st, e, a)),
              LAMBDA s : AssignBelongsTo(s, e, a, v))

\* -------------------------------------------------------------- hasMany
\* An element of an array assigned to a hasMany attribute: a Model or a
\* ModelPromise (kind "promise": it has an id but no `embedded` property).
Item(kind, t, id) == [kind |-> kind, type |-> t, id |-> id]

\* relatedRecord.id: undefined for an item that is an id string
IdOf(it) == IF it.kind = "string" THEN Undef ELSE it.id

ItemIds(items) == {IdOf(items[i]) : i \in 1..Len(items)}

\* one turn of value.map(...): an item that is not yet related is linked
LinkItem(st, e, a, it, existing) ==
    IF Schema[e[1]][a].embedded /\ ~(it.kind = "model" /\ EmbeddedType[it.type])
    THEN Throw(st, "NotEmbeddable")
    ELSE IF IdOf(it) = Undef \/ existing.val[it.id] # True
    THEN Then(SetInverse(st, e, a, IdOf(it), TRUE),
              LAMBDA s : Ok([s EXCEPT !.lhm[e][a] = HMPut(@, IdOf(it), True)]))
    ELSE Ok(st)

\* value.map(...): add the items that are not yet related
RECURSIVE HMLinkLoop(_, _, _, _, _)
HMLinkLoop(st, e, a, items, existing) ==
    IF items = <<>> THEN Ok(st)
    ELSE Then(LinkItem(st, e, a, Head(items), existing),
              LAMBDA s : HMLinkLoop(s, e, a, Tail(items), existing))

\* one turn of Object.keys(existingMappedRecords).map(...): a key that is not
\* in the new value is unlinked and marked null
UnlinkKey(st, e, a, key, newIds) ==
    IF key \notin newIds
    THEN Then(SetInverse(st, e, a, key, FALSE),
              LAMBDA s : Ok([s EXCEPT !.lhm[e][a] = HMPut(@, key, Null)]))
    ELSE Ok(st)

\* Object.keys(existingMappedRecords).map(...): remove what is not in value
RECURSIVE HMUnlinkLoop(_, _, _, _, _)
HMUnlinkLoop(st, e, a, keys, newIds) ==
    IF keys = <<>> THEN Ok(st)
    ELSE Then(UnlinkKey(st, e, a, Head(keys), newIds),
              LAMBDA s : HMUnlinkLoop(s, e, a, Tail(keys), newIds))

\* record._localAttributes[attribute] = {} if it is undefined
EnsureLocalMap(st, e, a) == [st EXCEPT !.lhm[e][a] = IF @.def THEN @ ELSE HMEmpty]

\* existingMappedRecords = Object.assign({}, remote, local)
ExistingMappedRecords(st, e, a) == HMAssign(remoteHM[e][a], st.lhm[e][a])

\* the array branch of the setter, with existingMappedRecords copied
HasManySetArray(st, e, a, items, existing) ==
    Then(HMLinkLoop(st, e, a, items, existing),
         LAMBDA s : HMUnlinkLoop(s, e, a, existing.ord, ItemIds(items)))

\* hasMany(...).handler(attribute).set.  v is an array of items (tag "array"),
\* an { id: true | null } object (tag "map"), or anything else.
HasManySet(st, e, a, v) ==
    IF isDeleted[e] THEN Throw(st, "RecordDeleted")
    ELSE IF v.tag = "array"
    THEN HasManySetArray(EnsureLocalMap(st, e, a), e, a, v.items,
                         ExistingMappedRecords(EnsureLocalMap(st, e, a), e, a))
    ELSE IF v.tag = "map" THEN Ok([st EXCEPT !.lhm[e][a] = v.map])
    ELSE Throw(st, "InvalidRelationValue")

ArrayValue(items) == [tag |-> "array", items |-> items, map |-> HMUndef]

\* The ids a read of a hasMany attribute that is not embedded shows, in order:
\* the keys of Object.assign({}, remote, local) whose value is true.
RECURSIVE TrueKeys(_, _)
TrueKeys(keys, val) ==
    IF keys = <<>> THEN <<>>
    ELSE (IF val[Head(keys)] = True THEN <<Head(keys)>> ELSE <<>>) \o TrueKeys(Tail(keys), val)

OrderedTrueKeys(m) == TrueKeys(m.ord, m.val)

ViewIds(lhm, e, a) == OrderedTrueKeys(HMAssign(remoteHM[e][a], lhm[e][a]))

\* relatedIds.map(id => store.findRecord(recordClass, id))
RECURSIVE FindAll(_, _, _)
FindAll(st, t, ids) ==
    IF ids = <<>> THEN st ELSE FindAll(FindRecord(st, t, Head(ids)), t, Tail(ids))

\* the array a read returns: each member as the resident Model or a ModelPromise
ViewItems(t, ids) ==
    [i \in 1..Len(ids) |-> Item(IF Peek(t, ids[i]) THEN "model" ELSE "promise", t, ids[i])]

\* the array of the records with the ids `ids`, each looked up with findRecord
RelatedRecords(st, t, ids) ==
    [st |-> FindAll(st, t, ids), err |-> "none", items |-> ViewItems(t, ids)]

\* hasMany(...).handler(attribute).get, not embedded
HasManyGet(st, e, a) ==
    IF isDeleted[e] THEN [st |-> st, err |-> "RecordDeleted", items |-> <<>>]
    ELSE RelatedRecords(st, Schema[e[1]][a].target, ViewIds(st.lhm, e, a))

\* the proxy's set trap: record[attribute] = target, run n times
RECURSIVE SetTrap(_, _, _, _, _)
SetTrap(st, e, a, items, n) ==
    IF n = 0 THEN Ok(st)
    ELSE Then(HasManySet(st, e, a, ArrayValue(items)),
              LAMBDA s : SetTrap(s, e, a, items, n - 1))

\* what the proxy does with the array g that the getter returned
OnView(g, e, a, items, n) ==
    IF g.err # "none" THEN Throw(g.st, g.err) ELSE SetTrap(g.st, e, a, items, n)

\* a view that the item does not reach
WithItemDropped(g, it) == g.items

WithItem(g, it) == Append(g.items, it)

WithoutLast(g) == IF g.items = <<>> THEN <<>> ELSE SubSeq(g.items, 1, Len(g.items) - 1)

\* what push does with the view g: the set trap runs the setter with the
\* extended array, for the new index and once more for length
PushOnView(g, e, a, it) == OnView(g, e, a, WithItem(g, it), 2)

\* what pop does with the view g: the set trap runs the setter once, for
\* length, with the array without its last element
PopOnView(g, e, a) == OnView(g, e, a, WithoutLast(g), 1)

\* record[attribute].push(item)
HasManyPush(st, e, a, it) == PushOnView(HasManyGet(st, e, a), e, a, it)

\* record[attribute].pop()
HasManyPop(st, e, a) == PopOnView(HasManyGet(st, e, a), e, a)

\* -------------------------------------------------------------- planner
\* A plan (the `updates` object) is a set of [path, val] entries, one per
\* path; val = "null" deletes the path.
Entry(path, val) == [path |-> path, val |-> val]

\* Object.assign(updates, more)
PlanAssign(updates, more) ==
    {x \in updates : \A y \in more : y.path # x.path} \cup more

\* The embedded records the second half of _pathsToSave visits: one item per
\* embedded belongsTo key and one per member of each embedded hasMany key.
EmbeddedWork(e) ==
    LET t == e[1]
        bts == {k \in BTAttrs(t) : /\ Schema[t][k].embedded
                                   /\ (localBT[e][k] # Undef \/ remoteBT[e][k] # Undef)}
        hms == {k \in HMAttrs(t) : /\ Schema[t][k].embedded
                                   /\ (localHM[e][k].def \/ remoteHM[e][k].def)}
        \* Object.assign(allAttributes, _localAttributes, _remoteAttributes):
        \* the remote value of a key hides the local one
        members(k) == IF remoteHM[e][k].def THEN SeqSet(remoteHM[e][k].ord)
                      ELSE SeqSet(localHM[e][k].ord)
    IN {[k |-> k, id |-> Undef, many |-> FALSE] : k \in bts}
       \cup UNION {{[k |-> k, id |-> i, many |-> TRUE] : i \in members(k)} : k \in hms}

RECURSIVE PathsToSave(_, _, _)
RECURSIVE PlanEmbedded(_, _, _, _, _)

Planned(paths, ls) == [paths |-> paths, ls |-> ls, err |-> "none"]

\* Object.assign(updates, embeddedPaths[, { attributePath/id: relatedId }]),
\* then on to the other embedded records; c is the child's _pathsToSave
AfterChild(c, e, base, rest, acc, extra) ==
    IF c.err # "none" THEN [paths |-> acc, ls |-> c.ls, err |-> c.err]
    ELSE PlanEmbedded(c.ls, e, base, rest, PlanAssign(acc, PlanAssign(c.paths, extra)))

IdLeftOut(base, k, relatedId) == {}

\* updatePaths[`${attributePath}/id`] = embeddedRecord.id
EmbeddedId(base, k, relatedId) == {Entry(base \o <<k, "id">>, relatedId)}

\* an embedded belongsTo key k: the record is nulled, or missing from the
\* store, or deleted, or planned below attributePath with its id
PlanEmbeddedOne(ls, e, base, k, relatedId, rest, acc) ==
    IF localBT[e][k] = Null
    THEN PlanEmbedded(ls, e, base, rest, PlanAssign(acc, {Entry(Append(base, k), Null)}))
    ELSE IF ~Peek(Schema[e[1]][k].target, relatedId)
    THEN [paths |-> acc, ls |-> ls, err |-> "EmbeddedRecordNotLoaded"]
    ELSE IF isDeleted[<<Schema[e[1]][k].target, relatedId>>]
    THEN PlanEmbedded(ls, e, base, rest, PlanAssign(acc, {Entry(Append(base, k), Null)}))
    ELSE AfterChild(PathsToSave(ls, <<Schema[e[1]][k].target, relatedId>>, Append(base, k)),
                    e, base, rest, acc, EmbeddedId(base, k, relatedId))

\* a member id of an embedded hasMany key k: nulled locally, or missing from
\* the store, or planned below relatedPath
PlanEmbeddedMember(ls, e, base, k, id, rest, acc) ==
    IF localHM[e][k].def /\ localHM[e][k].val[id] = Null
    THEN PlanEmbedded(ls, e, base, rest, PlanAssign(acc, {Entry(base \o <<k, id>>, Null)}))
    ELSE IF ~Peek(Schema[e[1]][k].target, id)
    THEN [paths |-> acc, ls |-> ls, err |-> "EmbeddedRecordNotLoaded"]
    ELSE AfterChild(PathsToSave(ls, <<Schema[e[1]][k].target, id>>, base \o <<k, id>>),
                    e, base, rest, acc, {})

\* one embedded record w of the work
PlanEmbeddedItem(ls, e, base, w, rest, acc) ==
    IF w.many THEN PlanEmbeddedMember(ls, e, base, w.k, w.id, rest, acc)
    ELSE PlanEmbeddedOne(ls, e, base, w.k,
                         IF localBT[e][w.k] # Undef THEN localBT[e][w.k] ELSE remoteBT[e][w.k],
                         rest, acc)

PickWork(work) == CHOOSE x \in work : TRUE

\* The second half of _pathsToSave: the embedded records of e, one work item
\* at a time.  acc is `updates` so far.
PlanEmbedded(ls, e, base, work, acc) ==
    IF work = {} THEN Planned(acc, ls)
    ELSE PlanEmbeddedItem(ls, e, base, PickWork(work), work \ {PickWork(work)}, acc)

\* a planner that sets the default of every attribute that has no pending
\* value, whatever its remote value
WithDefaultsOverRemote(ls, e) ==
    [ls EXCEPT ![e] =
        [k \in ScalarAttrs(e[1]) |->
            IF @[k] = Undef /\ Schema[e[1]][k].hasDefault
            THEN Serialize(Codec(e[1], k), DefaultDate) ELSE @[k]]]

\* this[key] = options.defaultValue(), for the attributes that have a default
\* and no value
WithDefaults(ls, e) ==
    [ls EXCEPT ![e] =
        [k \in ScalarAttrs(e[1]) |->
            IF @[k] = Undef /\ remoteS[e][k] = Undef /\ Schema[e[1]][k].hasDefault
            THEN Serialize(Codec(e[1], k), DefaultDate) ELSE @[k]]]

\* a planner that sets the sentinel only on a record that has a pending
\* attr value
TimestampsWhenChanged(ls, e) ==
    [ls EXCEPT ![e] =
        [k \in ScalarAttrs(e[1]) |->
            IF Schema[e[1]][k].serverTs /\ (\E j \in ScalarAttrs(e[1]) : ls[e][j] # Undef)
            THEN ServerTimestamp ELSE @[k]]]

\* this._localAttributes[key] = admin.database.ServerValue.TIMESTAMP
WithTimestamps(ls, e) ==
    [ls EXCEPT ![e] =
        [k \in ScalarAttrs(e[1]) |->
            IF Schema[e[1]][k].serverTs THEN ServerTimestamp ELSE @[k]]]

\* a planner that writes the pending map at the path of the attribute
WholeCollection(e, base, k) ==
    IF localHM[e][k].def THEN {Entry(Append(base, k), Object)} ELSE {}

\* updates[relatedPath] = this._localAttributes[key][relatedId], for every key
\* of the pending map
MemberUpdates(e, base, k) ==
    {Entry(base \o <<k, i>>, localHM[e][k].val[i]) :
        i \in {i \in Ids : localHM[e][k].val[i] # Absent}}

\* a loop over _localAttributes that writes the id of an embedded belongsTo
\* at the path of the attribute too
LocalUpdatesWithEmbedded(ls, e, base) ==
    {Entry(Append(base, k), ls[e][k]) : k \in {k \in ScalarAttrs(e[1]) : ls[e][k] # Undef}}
    \cup {Entry(Append(base, k), localBT[e][k]) :
            k \in {k \in BTAttrs(e[1]) : localBT[e][k] # Undef}}
    \cup UNION {MemberUpdates(e, base, k) :
               k \in {k \in HMAttrs(e[1]) : ~Schema[e[1]][k].embedded}}

\* the loop over _localAttributes: attr keys, belongsTo keys that are not
\* embedded (or are null), the members of hasMany keys that are not embedded
LocalUpdates(ls, e, base) ==
    {Entry(Append(base, k), ls[e][k]) : k \in {k \in ScalarAttrs(e[1]) : ls[e][k] # Undef}}
    \cup {Entry(Append(base, k), localBT[e][k]) :
            k \in {k \in BTAttrs(e[1]) : /\ localBT[e][k] # Undef
                                         /\ ~(Schema[e[1]][k].embedded /\ localBT[e][k] # Null)}}
    \cup UNION {MemberUpdates(e, base, k) :
               k \in {k \in HMAttrs(e[1]) : ~Schema[e[1]][k].embedded}}

\* the plan of a record that is not deleted, with defaults and timestamps set
PlanRecord(ls, e, base) == PlanEmbedded(ls, e, base, EmbeddedWork(e), LocalUpdates(ls, e, base))

\* Model._pathsToSave(parentPath); parentPath = <<>> stands for null.  ls is
\* the attr part of every record's _localAttributes, which planning writes.
PathsToSave(ls, e, parentPath) ==
    IF isDeleted[e]
    THEN Planned({Entry(IF parentPath = <<>> THEN Path(e) ELSE parentPath, Null)}, ls)
    ELSE PlanRecord(WithTimestamps(WithDefaults(ls, e), e), e,
                    IF parentPath = <<>> THEN Path(e) ELSE parentPath)

\* ---------------------------------------------------------- Firebase tree
IsPrefix(p, q) == Len(p) <= Len(q) /\ SubSeq(q, 1, Len(p)) = p

\* database.ref().update(plan): every path of the plan is replaced (a null
\* removes it), all in one atomic write; the server resolves the sentinel
DbUpdate(tree, plan) ==
    {x \in tree : \A y \in plan : ~IsPrefix(y.path, x.path)}
    \cup {Entry(y.path, IF y.val = ServerTimestamp THEN ServerTime ELSE y.val) :
            y \in {y \in plan : y.val # Null}}

\* snapshot.val() at path p, one attribute deep
DbValue(tree, p) ==
    IF \E x \in tree : x.path = p THEN (CHOOSE x \in tree : x.path = p).val ELSE Undef

DbExists(tree, p) == \E x \in tree : IsPrefix(p, x.path)

\* the object below path p ({ id: true }, or { id: payload } when embedded),
\* keys in key order
DbMap(tree, p, embedded) ==
    LET ids == {i \in Ids : DbExists(tree, Append(p, i))} IN
    IF ids = {} THEN HMUndef
    ELSE [def |-> TRUE, ord |-> Sorted(ids),
          val |-> [i \in Ids |-> IF i \notin ids THEN Absent
                                  ELSE IF embedded THEN Object ELSE True]]

\* -------------------------------------------------------------- the store
EmptyS(t) == [k \in ScalarAttrs(t) |-> Undef]
EmptyBT(t) == [k \in BTAttrs(t) |-> Undef]
EmptyHM(t) == [k \in HMAttrs(t) |-> HMUndef]

\* the records reachable from e through _atomicallyLinked
RECURSIVE Reach(_, _)
Reach(S, lk) ==
    LET more == S \cup UNION {lk[x] : x \in S} IN
    IF more = S THEN S ELSE Reach(more, lk)

AtomicClosure(e) == Reach({e}, linked)

\* the plans of a set of records merged into one update, planned one record
\* after the other
RECURSIVE PlanAll(_, _, _)

\* p is the plan of one record; on to the rest of the records
AfterRecord(p, rest, acc) ==
    IF p.err # "none" THEN [paths |-> acc, ls |-> p.ls, err |-> p.err]
    ELSE PlanAll(p.ls, rest, PlanAssign(acc, p.paths))

PlanAll(ls, records, acc) ==
    IF records = {} THEN Planned(acc, ls)
    ELSE AfterRecord(PathsToSave(ls, PickWork(records), <<>>), records \ {PickWork(records)}, acc)

\* Model.save(): an embedded record hands over to the record it is embedded in
RECURSIVE SaveRoot(_)
SaveRoot(e) ==
    IF embeddedIn[e] # NoEntity THEN SaveRoot(embeddedIn[e])
    ELSE IF EmbeddedType[e[1]] THEN NoEntity
    ELSE e

\* What the write at the paths of plan leaves of record r's attributes.
\* a save that leaves the scalar _remoteAttributes as they were
NotFolded(r, plan, old) == old

FoldS(r, plan, old) ==
    IF Entry(Path(r), Null) \in plan THEN EmptyS(r[1])
    ELSE [k \in ScalarAttrs(r[1]) |->
            LET v == DbValue(plan, Append(Path(r), k)) IN
            IF v = Undef THEN old[k]
            ELSE IF v = Null THEN Undef
            ELSE IF v = ServerTimestamp THEN ServerTime
            ELSE v]

FoldBT(r, plan, old) ==
    IF Entry(Path(r), Null) \in plan THEN EmptyBT(r[1])
    ELSE [k \in BTAttrs(r[1]) |->
            LET p == Append(Path(r), k)
                v == IF Schema[r[1]][k].embedded /\ DbValue(plan, p) # Null
                     THEN DbValue(plan, Append(p, "id"))
                     ELSE DbValue(plan, p)
            IN IF v = Undef THEN old[k] ELSE IF v = Null THEN Undef ELSE v]

FoldHM(r, plan, old) ==
    IF Entry(Path(r), Null) \in plan THEN EmptyHM(r[1])
    ELSE [k \in HMAttrs(r[1]) |->
            LET p == Append(Path(r), k)
                written(i) == IF Schema[r[1]][k].embedded
                              THEN (IF Entry(Append(p, i), Null) \in plan THEN Null
                                    ELSE IF \E x \in plan : IsPrefix(Append(p, i), x.path) THEN Object
                                    ELSE Undef)
                              ELSE DbValue(plan, Append(p, i))
                val == [i \in Ids |->
                          IF written(i) = Undef THEN old[k].val[i]
                          ELSE IF written(i) = Null THEN Absent
                          ELSE written(i)]
                ids == {i \in Ids : val[i] # Absent}
            IN IF ids = {} THEN HMUndef
               ELSE [def |-> TRUE, ord |-> Sorted(ids), val |-> val]]

\* ---------------------------------------------------------------- actions
\* lastOp: which call ran last, how it ended ("none": it returned) and, where
\* a property needs them, what it was called with
Called(op, err, call) == [op |-> op, err |-> err, call |-> call]

Op(op, err) == Called(op, err, <<>>)

NoSave == [active |-> FALSE, records |-> {}, plan |-> {}, before |-> <<>>]
NoDelete == [active |-> FALSE, failed |-> FALSE, keys |-> {}, read |-> {}]

\* no save and no deleteRecord is suspended: the caller awaits both
Quiet == ~saving.active /\ \A e \in Entities : ~deleting[e].active

\* the state a result leaves behind
Becomes(st) ==
    /\ localS' = st.ls
    /\ localBT' = st.lbt
    /\ localHM' = st.lhm
    /\ linked' = st.linked
    /\ embeddedIn' = st.emb
    /\ loading' = st.loading

\* a call that ended as r: the state it left and how it ended
LandsAs(r, op, call) ==
    /\ Becomes(r.st)
    /\ lastOp' = Called(op, r.err, call)

Lands(r, op) == LandsAs(r, op, <<>>)

\* a new Model instance for e
Fresh(e, new) ==
    /\ resident' = resident \cup {e}
    /\ isNew' = [isNew EXCEPT ![e] = new]
    /\ isDeleted' = [isDeleted EXCEPT ![e] = FALSE]
    /\ isSaving' = [isSaving EXCEPT ![e] = FALSE]
    /\ localS' = [localS EXCEPT ![e] = EmptyS(e[1])]
    /\ localBT' = [localBT EXCEPT ![e] = EmptyBT(e[1])]
    /\ localHM' = [localHM EXCEPT ![e] = EmptyHM(e[1])]
    /\ linked' = [linked EXCEPT ![e] = {}]
    /\ embeddedIn' = [embeddedIn EXCEPT ![e] = NoEntity]

\* store.createRecord(recordClass, { id }): the id is not in use
CreateRecord(e) ==
    /\ Quiet
    /\ e \notin resident
    /\ e \notin loading
    /\ ~DbExists(db, Path(e))
    /\ Fresh(e, TRUE)
    /\ remoteS' = [remoteS EXCEPT ![e] = EmptyS(e[1])]
    /\ remoteBT' = [remoteBT EXCEPT ![e] = EmptyBT(e[1])]
    /\ remoteHM' = [remoteHM EXCEPT ![e] = EmptyHM(e[1])]
    /\ lastOp' = Called("createRecord", "none", <<e>>)
    /\ UNCHANGED <<loading, db, pathPrefix, saving, deleting>>

\* the caller's store.findRecord(recordClass, id) for a record not in the store
FindRecordCall(e) ==
    /\ Quiet
    /\ ~EmbeddedType[e[1]]
    /\ e \notin resident
    /\ e \notin loading
    /\ loading' = loading \cup {e}
    /\ lastOp' = Op("findRecord", "none")
    /\ UNCHANGED <<resident, isNew, isDeleted, isSaving, localS, localBT, localHM,
                   remoteS, remoteBT, remoteHM, linked, embeddedIn, db, pathPrefix, saving, deleting>>

\* setAttributesFrom(snapshot.val()) for the record at Path(e)
SnapshotS(tree, e) == [k \in ScalarAttrs(e[1]) |-> DbValue(tree, Append(Path(e), k))]
SnapshotBT(tree, e) ==
    [k \in BTAttrs(e[1]) |->
        IF Schema[e[1]][k].embedded THEN DbValue(tree, Path(e) \o <<k, "id">>)
        ELSE DbValue(tree, Append(Path(e), k))]
SnapshotHM(tree, e) ==
    [k \in HMAttrs(e[1]) |-> DbMap(tree, Append(Path(e), k), Schema[e[1]][k].embedded)]

\* a fetch completes: the record is materialized and cached, or NotFound
FetchDone(e) ==
    /\ e \in loading
    /\ e \notin resident
    /\ loading' = loading \ {e}
    /\ IF DbExists(db, Path(e))
       THEN /\ Fresh(e, FALSE)
            /\ remoteS' = [remoteS EXCEPT ![e] = SnapshotS(db, e)]
            /\ remoteBT' = [remoteBT EXCEPT ![e] = SnapshotBT(db, e)]
            /\ remoteHM' = [remoteHM EXCEPT ![e] = SnapshotHM(db, e)]
            /\ lastOp' = Op("fetch", "none")
       ELSE /\ lastOp' = Op("fetch", "NotFound")
            /\ UNCHANGED <<resident, isNew, isDeleted, isSaving, localS, localBT, localHM,
                           remoteS, remoteBT, remoteHM, linked, embeddedIn>>
    /\ UNCHANGED <<db, pathPrefix, saving, deleting>>

\* record[a] = v for a belongsTo attribute
SetBelongsToAs(e, a, v, call) ==
    /\ Quiet
    /\ e \in resident
    /\ a \in BTAttrs(e[1])
    /\ LandsAs(BelongsToSet(Cur, e, a, v), "setBelongsTo", call)
    /\ UNCHANGED <<resident, isNew, isDeleted, isSaving, remoteS, remoteBT, remoteHM,
                   db, pathPrefix, saving, deleting>>

SetBelongsTo(e, a, v) == SetBelongsToAs(e, a, v, <<>>)

\* record[a] = v for a hasMany attribute
SetHasManyTo(e, a, v, call) ==
    /\ Quiet
    /\ e \in resident
    /\ a \in HMAttrs(e[1])
    /\ LandsAs(HasManySet(Cur, e, a, v), "setHasMany", call)
    /\ UNCHANGED <<resident, isNew, isDeleted, isSaving, remoteS, remoteBT, remoteHM,
                   db, pathPrefix, saving, deleting>>

\* record[a] = [items] for a hasMany attribute
SetHasManyAs(e, a, items, call) == SetHasManyTo(e, a, ArrayValue(items), call)

\* record[a].push(item)
SetHasMany(e, a, items) == SetHasManyAs(e, a, items, <<>>)

PushAs(e, a, it, call) ==
    /\ Quiet
    /\ e \in resident
    /\ a \in HMAttrs(e[1])
    /\ ~Schema[e[1]][a].embedded
    /\ LandsAs(HasManyPush(Cur, e, a, it), "push", call)
    /\ UNCHANGED <<resident, isNew, isDeleted, isSaving, remoteS, remoteBT, remoteHM,
                   db, pathPrefix, saving, deleting>>

Push(e, a, it) == PushAs(e, a, it, <<>>)

\* record[a].pop()
PopAs(e, a, call) ==
    /\ Quiet
    /\ e \in resident
    /\ a \in HMAttrs(e[1])
    /\ ~Schema[e[1]][a].embedded
    /\ LandsAs(HasManyPop(Cur, e, a), "pop", call)
    /\ UNCHANGED <<resident, isNew, isDeleted, isSaving, remoteS, remoteBT, remoteHM,
                   db, pathPrefix, saving, deleting>>

Pop(e, a) == PopAs(e, a, <<>>)

\* attr(...).handler(attribute).set: String values serialize to themselves
\* an assignment of what serialize returned, an error too
StoredAnyway(st, e, a, s) == Ok([st EXCEPT !.ls[e][a] = s])

\* the attribute is assigned what serialize returned
Stored(st, e, a, s) ==
    IF s \in {"TypeMismatch", "TypeError"} THEN Throw(st, s)
    ELSE Ok([st EXCEPT !.ls[e][a] = s])

\* an attr set that does not look at isDeleted
AttrSetOfAny(st, e, a, v) ==
    IF v = Null THEN Ok([st EXCEPT !.ls[e][a] = Null])
    ELSE Stored(st, e, a, Serialize(Codec(e[1], a), v))

\* attr set: a deleted record throws, null is stored as it is
AttrSet(st, e, a, v) ==
    IF isDeleted[e] THEN Throw(st, "RecordDeleted")
    ELSE IF v = Null THEN Ok([st EXCEPT !.ls[e][a] = Null])
    ELSE Stored(st, e, a, Serialize(Codec(e[1], a), v))

\* record[a] = v for an attr attribute
SetAttrAs(e, a, v, call) ==
    /\ Quiet
    /\ e \in resident
    /\ a \in ScalarAttrs(e[1])
    /\ LandsAs(AttrSet(Cur, e, a, v), "setAttr", call)
    /\ UNCHANGED <<resident, isNew, isDeleted, isSaving, remoteS, remoteBT, remoteHM,
                   db, pathPrefix, saving, deleting>>

SetAttr(e, a, v) == SetAttrAs(e, a, v, <<>>)

\* attr(...).handler(attribute).get
AttrGet(e, a) ==
    IF isDeleted[e] THEN "RecordDeleted"
    ELSE IF localS[e][a] # Undef THEN Deserialize(Codec(e[1], a), localS[e][a])
    ELSE IF remoteS[e][a] # Undef THEN Deserialize(Codec(e[1], a), remoteS[e][a])
    ELSE IF Schema[e[1]][a].hasDefault THEN DefaultDate
    ELSE Null

\* what reading each attribute of e gives: a scalar, the id of the related
\* record or null, the set of members; "unread" for an embedded hasMany
Reads(e) ==
    [a \in AttrsOf(e[1]) |->
        IF isDeleted[e] THEN "RecordDeleted"
        ELSE IF Schema[e[1]][a].kind = "attr" THEN AttrGet(e, a)
        ELSE IF Schema[e[1]][a].kind = "belongsTo"
        THEN (IF localBT[e][a] # Undef THEN localBT[e][a]
              ELSE IF remoteBT[e][a] # Undef THEN remoteBT[e][a]
              ELSE Null)
        ELSE IF Schema[e[1]][a].embedded THEN "unread"
        ELSE {i \in Ids : IF localHM[e][a].val[i] # Absent
                           THEN localHM[e][a].val[i] = True
                           ELSE remoteHM[e][a].val[i] = True}]

\* _willSave on every record, then the one update is sent
WillSaveAs(records, p, before, call) ==
    /\ localS' = p.ls
    /\ lastOp' = Called("save", p.err, call)
    /\ IF p.err # "none"
       THEN UNCHANGED <<isSaving, saving>>
       ELSE /\ isSaving' = [r \in Entities |-> isSaving[r] \/ r \in records]
            /\ saving' = [active |-> TRUE, records |-> records, plan |-> p.paths,
                          before |-> before]

\* store._save(record): the records saved with it, and their plans in one update
StoreSaveAs(records, before, call) ==
    WillSaveAs(records, PlanAll(localS, records, {}), before, call)

\* what the records read as when save is called, kept for the properties
\* that compare it with what they read as afterwards
ReadsBefore(records) == [r \in records |-> Reads(r)]

SaveCalled(e, tracked, call) ==
    /\ Quiet
    /\ e \in resident
    /\ IF SaveRoot(e) = NoEntity
       THEN /\ lastOp' = Called("save", "CannotSaveDetachedEmbedded", call)
            /\ UNCHANGED <<isSaving, localS, saving>>
       ELSE StoreSaveAs(AtomicClosure(SaveRoot(e)),
                        IF tracked THEN ReadsBefore(AtomicClosure(SaveRoot(e))) ELSE <<>>, call)
    /\ UNCHANGED <<resident, loading, isNew, isDeleted, localBT, localHM,
                   remoteS, remoteBT, remoteHM, linked, embeddedIn, db, pathPrefix, deleting>>

SaveStartAs(e, tracked) == SaveCalled(e, tracked, <<>>)

\* record.save()
SaveStart(e) == SaveStartAs(e, FALSE)

\* a _didSave that keeps the scalar _localAttributes
KeepLocal(r) == localS[r]

\* _didSave: this._localAttributes = {}, for the scalars
DidSaveLocal(r) == EmptyS(r[1])

\* the atomic update succeeded: _didSave on every record of the closure
SaveDone ==
    /\ saving.active
    /\ db' = DbUpdate(db, saving.plan)
    /\ UNCHANGED pathPrefix
    /\ saving' = NoSave
    /\ isSaving' = [r \in Entities |-> isSaving[r] /\ r \notin saving.records]
    /\ isNew' = [r \in Entities |-> isNew[r] /\ r \notin saving.records]
    /\ localS' = [r \in Entities |-> IF r \in saving.records THEN DidSaveLocal(r) ELSE localS[r]]
    /\ localBT' = [r \in Entities |-> IF r \in saving.records THEN EmptyBT(r[1]) ELSE localBT[r]]
    /\ localHM' = [r \in Entities |-> IF r \in saving.records THEN EmptyHM(r[1]) ELSE localHM[r]]
    /\ remoteS' = [r \in Entities |->
                     IF r \in saving.records THEN FoldS(r, saving.plan, remoteS[r]) ELSE remoteS[r]]
    /\ remoteBT' = [r \in Entities |->
                     IF r \in saving.records THEN FoldBT(r, saving.plan, remoteBT[r]) ELSE remoteBT[r]]
    /\ remoteHM' = [r \in Entities |->
                     IF r \in saving.records THEN FoldHM(r, saving.plan, remoteHM[r]) ELSE remoteHM[r]]
    /\ lastOp' = Called("saved", "none",
                        IF saving.before = <<>> THEN <<>> ELSE <<saving.records, saving.before>>)
    /\ UNCHANGED <<resident, loading, isDeleted, linked, embeddedIn, deleting>>

\* the keys deleteRecord clears: the relationships that have an inverse
InverseKeys(t) == {k \in AttrsOf(t) : Schema[t][k].kind # "attr" /\ Schema[t][k].inverse # ""}

\* reading every inverse relationship of e, as deleteRecord does before its
\* first await: the fetches it starts and the ids it waits for
RECURSIVE DeleteReads(_, _, _, _)

\* g is what this[key] read; on to the other keys
AfterRead(g, ids, e, k, rest, acc) ==
    DeleteReads(g.st, e, rest, acc \cup {[k |-> k, ids |-> ids]})

ReadToOne(g, e, k, rest, acc) ==
    AfterRead(g, IF g.id = Null THEN {} ELSE {g.id}, e, k, rest, acc)

ReadToMany(g, e, k, rest, acc) == AfterRead(g, ItemIds(g.items), e, k, rest, acc)

ReadKey(st, e, k, rest, acc) ==
    IF Schema[e[1]][k].kind = "belongsTo"
    THEN ReadToOne(BelongsToGet(st, e, k), e, k, rest, acc)
    ELSE ReadToMany(HasManyGet(st, e, k), e, k, rest, acc)

DeleteReads(st, e, keys, acc) ==
    IF keys = {} THEN [st |-> st, keys |-> acc]
    ELSE ReadKey(st, e, PickWork(keys), keys \ {PickWork(keys)}, acc)

\* deleteRecord is suspended on the records d.keys names
Suspends(d, e) ==
    /\ Becomes(d.st)
    /\ deleting' = [deleting EXCEPT ![e] = [active |-> TRUE, failed |-> FALSE,
                                            keys |-> d.keys, read |-> d.keys]]
    /\ lastOp' = Op("deleteStart", "none")

\* record.deleteRecord() up to its first await
DeleteStart(e) ==
    /\ Quiet
    /\ e \in resident
    /\ IF isDeleted[e] /\ InverseKeys(e[1]) # {}
       THEN /\ lastOp' = Op("deleteRecord", "RecordDeleted")
            /\ UNCHANGED <<loading, localS, localBT, localHM, linked, embeddedIn, deleting>>
       ELSE Suspends(DeleteReads(Cur, e, InverseKeys(e[1]), {}), e)
    /\ UNCHANGED <<resident, isNew, isDeleted, isSaving, remoteS, remoteBT, remoteHM, db, pathPrefix, saving>>

\* the records deleteRecord awaits for the key of w
Awaited(e, w) == {<<Schema[e[1]][w.k].target, i>> : i \in w.ids}

\* this[key] = null (or []) ended as r
Cleared(r, e, w) ==
    /\ Becomes(r.st)
    /\ deleting' = [deleting EXCEPT ![e].keys = @ \ {w}, ![e].failed = @ \/ r.err # "none"]
    /\ lastOp' = Op("deleteClear", r.err)

\* deleteRecord resumes for one key: the records it waited for are loaded
\* (or a fetch failed), and the relationship is cleared through its setter
DeleteClear(e, w) ==
    /\ deleting[e].active
    /\ w \in deleting[e].keys
    /\ Awaited(e, w) \cap loading = {}
    /\ IF Awaited(e, w) \subseteq resident
       THEN Cleared(IF Schema[e[1]][w.k].kind = "belongsTo"
                    THEN BelongsToSet(Cur, e, w.k, NullValue)
                    ELSE HasManySet(Cur, e, w.k, ArrayValue(<<>>)),
                    e, w)
       ELSE /\ deleting' = [deleting EXCEPT ![e].keys = @ \ {w}, ![e].failed = TRUE]
            /\ lastOp' = Op("deleteClear", "NotFound")
            /\ UNCHANGED <<loading, localS, localBT, localHM, linked, embeddedIn>>
    /\ UNCHANGED <<resident, isNew, isDeleted, isSaving, remoteS, remoteBT, remoteHM, db, pathPrefix, saving>>

\* every key is done: this.isDeleted = true, unless a key threw
DeleteFinish(e) ==
    /\ deleting[e].active
    /\ deleting[e].keys = {}
    /\ isDeleted' = [isDeleted EXCEPT ![e] = @ \/ ~deleting[e].failed]
    /\ deleting' = [deleting EXCEPT ![e] = NoDelete]
    /\ lastOp' = Called("deleteRecord", IF deleting[e].failed THEN "Rejected" ELSE "none",
                        <<e, deleting[e].read>>)
    /\ UNCHANGED <<resident, loading, isNew, isSaving, localS, localBT, localHM,
                   remoteS, remoteBT, remoteHM, linked, embeddedIn, db, pathPrefix, saving>>

\* ------------------------------------------------------------------- Init
Ent(T) == {e \in Entities : e[1] \in T}

\* The tree a earlier session left behind: the records of `exist`, each with
\* its name or title, related by owner (blog id -> user id), postBlog (post id
\* -> blog id) and authors (a set of <<user id, post id>>), both sides written.
SeedTree(exist, owner, postBlog, authors) ==
    {Entry(Append(Path(e), IF e[1] = "post" THEN "title" ELSE "name"), "a") : e \in exist}
    \cup UNION {{Entry(<<"blogs", b, "owner">>, owner[b]),
                 Entry(<<"users", owner[b], "blog">>, b)} :
                b \in {b \in Ids : owner[b] # Undef}}
    \cup UNION {{Entry(<<"blog/posts", p, "blog">>, postBlog[p]),
                 Entry(<<"blogs", postBlog[p], "posts", p>>, True)} :
                p \in {p \in Ids : postBlog[p] # Undef}}
    \cup UNION {{Entry(<<"users", x[1], "posts", x[2]>>, True),
                 Entry(<<"blog/posts", x[2], "authors", x[1]>>, True)} :
                x \in authors}

NoRel == [i \in Ids |-> Undef]

\* one-to-one seeds: every blog has at most one owner and every user one blog
OwnerSeeds(exist) ==
    {o \in [Ids -> Ids \cup {Undef}] :
        /\ \A b \in Ids : o[b] # Undef => <<"blog", b>> \in exist /\ <<"user", o[b]>> \in exist
        /\ \A b, c \in Ids : (b # c /\ o[b] # Undef) => o[b] # o[c]}

PostBlogSeeds(exist) ==
    {f \in [Ids -> Ids \cup {Undef}] :
        \A p \in Ids : f[p] # Undef => <<"post", p>> \in exist /\ <<"blog", f[p]>> \in exist}

AuthorSeeds(exist) ==
    SUBSET {x \in Ids \X Ids : <<"user", x[1]>> \in exist /\ <<"post", x[2]>> \in exist}

\* a new Store over the tree `tree`, after the records R of the tree were
\* fetched with findRecord and the fetches completed, and the records N were
\* made with createRecord
InitStoreNew(tree, R, N) ==
    /\ db = tree
    /\ pathPrefix = NoPrefix
    /\ resident = R \cup N
    /\ loading = {}
    /\ isNew = [e \in Entities |-> e \in N]
    /\ isDeleted = [e \in Entities |-> FALSE]
    /\ isSaving = [e \in Entities |-> FALSE]
    /\ localS = [e \in Entities |-> EmptyS(e[1])]
    /\ localBT = [e \in Entities |-> EmptyBT(e[1])]
    /\ localHM = [e \in Entities |-> EmptyHM(e[1])]
    /\ remoteS = [e \in Entities |-> IF e \in R THEN SnapshotS(tree, e) ELSE EmptyS(e[1])]
    /\ remoteBT = [e \in Entities |-> IF e \in R THEN SnapshotBT(tree, e) ELSE EmptyBT(e[1])]
    /\ remoteHM = [e \in Entities |-> IF e \in R THEN SnapshotHM(tree, e) ELSE EmptyHM(e[1])]
    /\ linked = [e \in Entities |-> {}]
    /\ embeddedIn = [e \in Entities |-> NoEntity]
    /\ saving = NoSave
    /\ deleting = [e \in Entities |-> NoDelete]
    /\ lastOp = Op("new Store", "none")

InitStore(tree, R) == InitStoreNew(tree, R, {})

\* the values a typed caller assigns to a belongsTo attribute whose target is
\* in the store: the record, its id, or null
LoadedValues(e, a) ==
    LET t == Schema[e[1]][a].target IN
    {NullValue} \cup {ModelValue(t, i) : i \in {i \in Ids : Peek(t, i)}}
                \cup {IdValue(i) : i \in {i \in Ids : Peek(t, i)}}

\* ------------------------------------------------- effective relationships
\* the id a belongsTo attribute currently points to, or "null"
EffBT(e, a) ==
    IF localBT[e][a] # Undef THEN localBT[e][a]
    ELSE IF remoteBT[e][a] # Undef THEN remoteBT[e][a]
    ELSE Null

\* is id a current member of the hasMany attribute?
EffMember(e, a, id) ==
    IF localHM[e][a].val[id] # Absent THEN localHM[e][a].val[id] = True
    ELSE remoteHM[e][a].val[id] = True

\* --------------------------------------------------- one-to-one (C1)
OneOneTypes == {"blog", "user"}

\* a typed caller sets a to-one relationship that has an inverse to a record
\* in the store, to its id, or to null
SetOneOne(e, a, v) ==
    /\ Schema[e[1]][a].inverse # ""
    /\ Schema[e[1]][a].target \in OneOneTypes
    /\ v \in LoadedValues(e, a)
    /\ SetBelongsTo(e, a, v)

InitOneOne ==
    \E o \in OwnerSeeds(Ent(OneOneTypes)) :
        InitStore(SeedTree(Ent(OneOneTypes), o, NoRel, {}), Ent(OneOneTypes))

NextOneOne ==
    \/ \E e \in Ent(OneOneTypes) : \E a \in BTAttrs(e[1]) :
          \E v \in {NullValue} \cup {ModelValue(t, i) : t \in OneOneTypes, i \in Ids}
                   \cup {IdValue(i) : i \in Ids} : SetOneOne(e, a, v)
    \/ \E e \in Ent(OneOneTypes) : SaveStart(e)
    \/ SaveDone

SpecOneOne == InitOneOne /\ [][NextOneOne]_vars

\* C1: one-to-one symmetry.  For a blog and a user that are both in the
\* store, the blog's owner is the user exactly when the user's blog is the blog.
C1_OneToOneSymmetry ==
    \A b \in Ids : \A u \in Ids :
        (<<"blog", b>> \in resident /\ <<"user", u>> \in resident)
        => (EffBT(<<"blog", b>>, "owner") = u <=> EffBT(<<"user", u>>, "blog") = b)

\* blog 1 took user 2 from blog 2 and left user 1: all four sides were rewritten
C1_Witness ==
    /\ lastOp = Op("setBelongsTo", "none")
    /\ remoteBT[<<"blog", "1">>].owner = "1"
    /\ remoteBT[<<"blog", "2">>].owner = "2"
    /\ localBT[<<"blog", "1">>].owner = "2"
    /\ localBT[<<"user", "2">>].blog = "1"
    /\ localBT[<<"user", "1">>].blog = Null
    /\ localBT[<<"blog", "2">>].owner = Null

\* ------------------------------------------------- one-to-many (C2)
OneManyTypes == {"blog", "post"}

\* the arrays of records of type t in the store, each record at most once
ArraysOf(t) ==
    {[i \in 1..Len(s) |-> Item("model", t, s[i])] :
        s \in {s \in UNION {[1..n -> {i \in Ids : Peek(t, i)}] : n \in 0..MaxId} :
                  \A i, j \in 1..Len(s) : i # j => s[i] # s[j]}}

\* post.blog = a blog in the store, its id, or null
SetPostBlog(p, v) ==
    /\ v \in LoadedValues(<<"post", p>>, "blog")
    /\ SetBelongsTo(<<"post", p>>, "blog", v)

\* blog.posts = [posts in the store]
SetBlogPosts(b, items) ==
    /\ items \in ArraysOf("post")
    /\ SetHasMany(<<"blog", b>>, "posts", items)

\* blog.posts.push(post)
PushBlogPost(b, p) ==
    /\ Peek("post", p)
    /\ Push(<<"blog", b>>, "posts", Item("model", "post", p))

\* blog.posts.pop()
PopBlogPost(b) == Pop(<<"blog", b>>, "posts")

InitOneMany ==
    \E f \in PostBlogSeeds(Ent(OneManyTypes)) :
        InitStore(SeedTree(Ent(OneManyTypes), NoRel, f, {}), Ent(OneManyTypes))

NextOneMany ==
    \/ \E p \in Ids : \E v \in {NullValue} \cup {ModelValue("blog", i) : i \in Ids}
                                  \cup {IdValue(i) : i \in Ids} : SetPostBlog(p, v)
    \/ \E b \in Ids : \E items \in ArraysOf("post") : SetBlogPosts(b, items)
    \/ \E b \in Ids : \E p \in Ids : PushBlogPost(b, p)
    \/ \E b \in Ids : PopBlogPost(b)

SpecOneMany == InitOneMany /\ [][NextOneMany]_vars

\* C2: one-to-many symmetry.  For a blog and a post that are both in the
\* store, the post is an effective member of the blog's posts exactly when the
\* post's effective blog is that blog.
C2_OneToManySymmetry ==
    \A b \in Ids : \A p \in Ids :
        (<<"blog", b>> \in resident /\ <<"post", p>> \in resident)
        => (EffMember(<<"blog", b>>, "posts", p) <=> EffBT(<<"post", p>>, "blog") = b)

\* ------------------------------------------------ many-to-many (C3)
ManyManyTypes == {"user", "post"}

\* user.posts = [posts in the store]
SetUserPosts(u, items) ==
    /\ items \in ArraysOf("post")
    /\ SetHasMany(<<"user", u>>, "posts", items)

\* post.authors = [users in the store]
SetPostAuthors(p, items) ==
    /\ items \in ArraysOf("user")
    /\ SetHasMany(<<"post", p>>, "authors", items)

InitManyMany ==
    \E au \in AuthorSeeds(Ent(ManyManyTypes)) :
        InitStore(SeedTree(Ent(ManyManyTypes), NoRel, NoRel, au), Ent(ManyManyTypes))

NextManyMany ==
    \/ \E u \in Ids : \E items \in ArraysOf("post") : SetUserPosts(u, items)
    \/ \E p \in Ids : \E items \in ArraysOf("user") : SetPostAuthors(p, items)

SpecManyMany == InitManyMany /\ [][NextManyMany]_vars

\* C3: many-to-many symmetry.  For a user and a post that are both in the
\* store, the post is an effective member of the user's posts exactly when the
\* user is an effective member of the post's authors.
C3_ManyToManySymmetry ==
    \A u \in Ids : \A p \in Ids :
        (<<"user", u>> \in resident /\ <<"post", p>> \in resident)
        => (EffMember(<<"user", u>>, "posts", p) <=> EffMember(<<"post", p>>, "authors", u))

\* user 1 replaced its one stored post by the other one: post 1 lost the
\* user and post 2 gained it
C3_Witness ==
    /\ lastOp = Op("setHasMany", "none")
    /\ remoteHM[<<"user", "1">>].posts.val["1"] = True
    /\ localHM[<<"user", "1">>].posts.val = [i \in Ids |-> IF i = "1" THEN Null ELSE IF i = "2" THEN True ELSE Absent]
    /\ localHM[<<"post", "1">>].authors.val["1"] = Null
    /\ localHM[<<"post", "2">>].authors.val["1"] = True

\* ------------------------------------------------- the closure (C4)
\* the writes the pending changes of r ask for: one per pending scalar and
\* to-one change, one per touched member of a to-many relation (embedded
\* relations are written with their parent's payload)
PendingWrites(r) ==
    {Entry(Append(Path(r), k), localS[r][k]) :
        k \in {k \in ScalarAttrs(r[1]) : localS[r][k] # Undef}}
    \cup {Entry(Append(Path(r), k), localBT[r][k]) :
        k \in {k \in BTAttrs(r[1]) : ~Schema[r[1]][k].embedded /\ localBT[r][k] # Undef}}
    \cup UNION {{Entry(Path(r) \o <<k, i>>, localHM[r][k].val[i]) :
                    i \in {i \in Ids : localHM[r][k].val[i] # Absent}} :
               k \in {k \in HMAttrs(r[1]) : ~Schema[r[1]][k].embedded}}

\* x has a pending change of a relation with an inverse that names r, as the
\* new target, as the target it left, or as a member added or removed
ChangedTogether(x, r) ==
    \/ \E k \in BTAttrs(x[1]) :
          /\ Schema[x[1]][k].inverse # ""
          /\ Schema[x[1]][k].target = r[1]
          /\ localBT[x][k] # Undef
          /\ (localBT[x][k] = r[2] \/ remoteBT[x][k] = r[2])
    \/ \E k \in HMAttrs(x[1]) :
          /\ Schema[x[1]][k].inverse # ""
          /\ Schema[x[1]][k].target = r[1]
          /\ localHM[x][k].val[r[2]] # Absent

\* C4: while the one atomic write of a save is in flight, every record whose
\* relationship was changed together with a record being saved is being
\* saved too, and the write holds every pending change of every record saved.
C4_SaveCommitsClosure ==
    saving.active =>
        \A x \in saving.records :
            /\ ~isDeleted[x] => PendingWrites(x) \subseteq saving.plan
            /\ \A r \in resident :
                  (ChangedTogether(x, r) \/ ChangedTogether(r, x)) => r \in saving.records

\* a save of one record of a chain of four writes all four: blog 1 took
\* user 2 from blog 2 and left user 1
C4_Witness ==
    /\ saving.active
    /\ saving.records = Ent(OneOneTypes)
    /\ {Entry(<<"blogs", "1", "owner">>, "2"), Entry(<<"users", "2", "blog">>, "1"),
        Entry(<<"users", "1", "blog">>, Null), Entry(<<"blogs", "2", "owner">>, Null)}
       \subseteq saving.plan

\* --------------------------------------- failing relation sets (C5, C9)
\* what a caller may assign to a to-one relation that has an inverse: null,
\* the id of a stored record, a record of the store, or something that is neither a record nor a
\* string; and to a relation that embeds: null or a record of the store
ToOneValues(e, a) ==
    IF Schema[e[1]][a].embedded
    THEN {NullValue} \cup {ModelValue(x[1], x[2]) : x \in resident}
    ELSE {NullValue, InvalidValue}
         \cup {IdValue(i) : i \in {i \in Ids : DbExists(db, Path(<<Schema[e[1]][a].target, i>>))}}
         \cup {ModelValue(x[1], x[2]) : x \in {x \in resident : x[1] = Schema[e[1]][a].target}}

\* the arrays a caller may assign to a to-many relation: records of the store
\* and the pending references of its own findRecord calls
ToManyArrays(t) ==
    {[i \in 1..Len(s) |-> Item(IF Peek(t, s[i]) THEN "model" ELSE "promise", t, s[i])] :
        s \in {s \in UNION {[1..n -> {i \in Ids : Peek(t, i) \/ <<t, i>> \in loading}] : n \in 0..MaxId} :
                  \A i, j \in 1..Len(s) : i # j => s[i] # s[j]}}

SetToOne(e, a, v) ==
    /\ Schema[e[1]][a].inverse # "" \/ Schema[e[1]][a].embedded
    /\ v \in ToOneValues(e, a)
    /\ SetBelongsTo(e, a, v)

SetToMany(e, a, items) ==
    /\ Schema[e[1]][a].inverse # ""
    /\ items \in ToManyArrays(Schema[e[1]][a].target)
    /\ SetHasMany(e, a, items)

\* the most records in the store
MaxLoaded == 2

Loaded(E) == {R \in SUBSET E : Cardinality(R) <= MaxLoaded}

\* the records of the two trees the failing sets are tried on
OwnerCase == {<<"blog", "1">>, <<"blog", "2">>, <<"user", "1">>}
PostsCase == {<<"blog", "1">>, <<"post", "1">>, <<"post", "2">>}

\* the stores the failing sets are tried in: two blogs and a user with their
\* stored owners, or a blog and two posts with their stored blogs, a few of
\* them fetched
InitPartlyLoaded ==
    \/ \E o \in OwnerSeeds(OwnerCase) : \E R \in Loaded(OwnerCase) :
          InitStore(SeedTree(OwnerCase, o, NoRel, {}), R)
    \/ \E f \in PostBlogSeeds(PostsCase) : \E R \in Loaded(PostsCase) :
          InitStore(SeedTree(PostsCase, NoRel, f, {}), R)

NextPartlyLoaded ==
    \/ \E e \in Entities : \E a \in BTAttrs(e[1]) :
          \E v \in {NullValue, InvalidValue} \cup {IdValue(i) : i \in Ids}
                   \cup {ModelValue(x[1], x[2]) : x \in Entities} : SetToOne(e, a, v)
    \/ \E e \in Entities : \E a \in HMAttrs(e[1]) \ {"comments"} :
          \E items \in ToManyArrays(Schema[e[1]][a].target) : SetToMany(e, a, items)
    \/ \E e \in Entities : FetchDone(e)

SpecPartlyLoaded == InitPartlyLoaded /\ [][NextPartlyLoaded]_vars

\* the failures of a relation set
SetFailures ==
    {"RelatedRecordNotLoaded", "InverseAttributeNotFound", "InvalidInverseKind",
     "EmbeddedInverseNotAllowed", "NotEmbeddable", "InvalidRelationValue"}

\* C5: a relation set that fails (related record not in the store, inverse
\* attribute missing, of scalar kind or on an embedded record, target not
\* embeddable, invalid value) leaves the pending changes, the atomic links and
\* embeddedIn of every record, the one it was called on included, exactly as
\* they were before the call.
C5_NoPartialApplication ==
    [][(lastOp'.op \in {"setBelongsTo", "setHasMany"} /\ lastOp'.err \in SetFailures)
          => UNCHANGED <<localS, localBT, localHM, linked, embeddedIn>>]_vars

\* the set of e.a to v has a record to unlink or to link that is not in the store
ToOneMissing(e, a, v) ==
    \/ /\ ExistingRelatedRecordId(Cur, e, a) # Null
       /\ ~Peek(Schema[e[1]][a].target, ExistingRelatedRecordId(Cur, e, a))
    \/ /\ v.tag \in {"model", "id"}
       /\ ~Peek(Schema[e[1]][a].target, v.id)

\* the set of e.a to the array items has a member to unlink or an item to link
\* that is not in the store
ToManyMissing(e, a, items) ==
    \/ \E k \in Ids \ ItemIds(items) :
          /\ ExistingMappedRecords(Cur, e, a).val[k] = True
          /\ ~Peek(Schema[e[1]][a].target, k)
    \/ \E k \in ItemIds(items) :
          /\ ExistingMappedRecords(Cur, e, a).val[k] # True
          /\ ~Peek(Schema[e[1]][a].target, k)

\* C9 for belongsTo: a set with a record to unlink or link outside the store
\* fails with RelatedRecordNotLoaded
ToOneFailsUnloaded ==
    \A e \in resident : \A a \in BTAttrs(e[1]) : \A v \in ToOneValues(e, a) :
        (Schema[e[1]][a].inverse # "" /\ ToOneMissing(e, a, v) /\ SetToOne(e, a, v))
            => lastOp'.err = "RelatedRecordNotLoaded"

\* C9 for hasMany
ToManyFailsUnloaded ==
    \A e \in resident : \A a \in HMAttrs(e[1]) :
        \A items \in ToManyArrays(Schema[e[1]][a].target) :
            (Schema[e[1]][a].inverse # "" /\ ToManyMissing(e, a, items) /\ SetToMany(e, a, items))
                => lastOp'.err = "RelatedRecordNotLoaded"

\* C9, second half: no set of a relation with an inverse starts a fetch
SetStartsNoFetch ==
    /\ \A e \in resident : \A a \in BTAttrs(e[1]) : \A v \in ToOneValues(e, a) :
          (Schema[e[1]][a].inverse # "" /\ SetToOne(e, a, v)) => loading' = loading
    /\ \A e \in resident : \A a \in HMAttrs(e[1]) :
          \A items \in ToManyArrays(Schema[e[1]][a].target) :
              (Schema[e[1]][a].inverse # "" /\ SetToMany(e, a, items)) => loading' = loading

\* C9: setting or clearing a relation with an inverse fails with
\* RelatedRecordNotLoaded whenever the previous target being unlinked or the
\* new target being linked is not in the store, and the call never starts a
\* fetch.
C9_UnloadedFailsWithoutFetch ==
    [][ToOneFailsUnloaded /\ ToManyFailsUnloaded /\ SetStartsNoFetch]_vars

\* the first half of C9 on its own
C9_UnloadedFails == [][ToOneFailsUnloaded /\ ToManyFailsUnloaded]_vars

\* ------------------------------- relation changes and deletes (C6, C7)
\* the records of a tree with two blogs for one post
BlogsCase == {<<"blog", "1">>, <<"blog", "2">>, <<"post", "1">>}

\* a typed caller sets a to-one relationship that has an inverse to a record
\* in the store, to its id, or to null
SetRelated(e, a, v) ==
    /\ Schema[e[1]][a].inverse # ""
    /\ v \in LoadedValues(e, a)
    /\ SetBelongsToAs(e, a, v, <<e, a, ExistingRelatedRecordId(Cur, e, a), v.id>>)

\* the stores relations are changed and records deleted in: one of three
\* trees, any of its records fetched
InitRelate ==
    \/ \E o \in OwnerSeeds(OwnerCase) : \E R \in SUBSET OwnerCase :
          InitStore(SeedTree(OwnerCase, o, NoRel, {}), R)
    \/ \E f \in PostBlogSeeds(BlogsCase) : \E R \in SUBSET BlogsCase :
          InitStore(SeedTree(BlogsCase, NoRel, f, {}), R)
    \/ \E f \in PostBlogSeeds(PostsCase) : \E R \in SUBSET PostsCase :
          InitStore(SeedTree(PostsCase, NoRel, f, {}), R)

NextRelate ==
    \/ \E e \in Entities : \E a \in BTAttrs(e[1]) :
          \E v \in {NullValue} \cup {ModelValue(t, i) : t \in Types, i \in Ids}
                   \cup {IdValue(i) : i \in Ids} : SetRelated(e, a, v)
    \/ \E e \in Entities : DeleteStart(e)
    \/ \E e \in Entities : \E w \in deleting[e].keys : DeleteClear(e, w)
    \/ \E e \in Entities : DeleteFinish(e)
    \/ \E e \in Entities : FetchDone(e)

SpecRelate == InitRelate /\ [][NextRelate]_vars

\* the update a save of e would hand to the database now
PlanOf(e) == PlanAll(localS, AtomicClosure(SaveRoot(e)), {}).paths

\* the record the relationship a of e names by id
Target(e, a, id) == <<Schema[e[1]][a].target, id>>

\* the write on the inverse side of e.a at the record `id`: e is set or added
\* (val = True) or is cleared or removed (val = Null)
InverseWrite(e, a, id, val) ==
    IF Schema[Schema[e[1]][a].target][Schema[e[1]][a].inverse].kind = "belongsTo"
    THEN Entry(Append(Path(Target(e, a, id)), Schema[e[1]][a].inverse),
               IF val = True THEN e[2] ELSE Null)
    ELSE Entry(Path(Target(e, a, id)) \o <<Schema[e[1]][a].inverse, e[2]>>, val)

\* what C7 asks of the plan of save(e) after e.a went from record x to y
ToOneChangePlanned(e, a, x, y, plan) ==
    /\ Entry(Append(Path(e), a), y) \in plan
    /\ x # Null => InverseWrite(e, a, x, Null) \in plan
    /\ y # Null => InverseWrite(e, a, y, True) \in plan

\* the last call changed a to-one relation with an inverse from one target
\* (or none) to another
ToOneChanged ==
    /\ lastOp.op = "setBelongsTo"
    /\ lastOp.err = "none"
    /\ lastOp.call # <<>>
    /\ lastOp.call[3] # lastOp.call[4]

\* C7: when a to-one relation with an inverse of a record A is changed from
\* its previous target X to a new value Y (each a record of the store or
\* null), the plan of save(A) holds A.path/R = Y.id (null for no Y), for X
\* a null at X.path/I or X.path/I/A.id, and for Y the write Y.path/I = A.id or
\* Y.path/I/A.id = true.
C7_ToOneChangePlan ==
    ToOneChanged =>
        ToOneChangePlanned(lastOp.call[1], lastOp.call[2], lastOp.call[3], lastOp.call[4],
                           PlanOf(lastOp.call[1]))

\* C7 for records of which none is deleted
C7_LiveToOneChangePlan ==
    (ToOneChanged /\ \A r \in resident : ~isDeleted[r]) =>
        ToOneChangePlanned(lastOp.call[1], lastOp.call[2], lastOp.call[3], lastOp.call[4],
                           PlanOf(lastOp.call[1]))

\* deleteRecord of a record has just returned
Deleted == lastOp.op = "deleteRecord" /\ lastOp.err = "none"

\* the records that deleteRecord found related when it started
WasRelated(e, read) == UNION {{[k |-> w.k, r |-> Target(e, w.k, i)] : i \in w.ids} : w \in read}

\* the pending value of the inverse of e.k at the record r no longer names e
InverseCleared(e, k, r) ==
    IF Schema[r[1]][Schema[e[1]][k].inverse].kind = "belongsTo"
    THEN localBT[r][Schema[e[1]][k].inverse] = Null
    ELSE localHM[r][Schema[e[1]][k].inverse].val[e[2]] = Null

\* the writes that clear the inverses of the records e was related to
ClearingWrites(e, read) == {InverseWrite(e, x.k, x.r[2], Null) : x \in WasRelated(e, read)}

\* the state deleteRecord of e leaves the records it found related in
RelatedCleared(e, read) ==
    /\ isDeleted[e]
    /\ \A x \in WasRelated(e, read) :
          /\ x.r \in resident
          /\ InverseCleared(e, x.k, x.r)
          /\ x.r \in linked[e]
          /\ e \in linked[x.r]

\* C6: after deleteRecord of E, E.isDeleted is true, every record that was
\* related to E through a relation with an inverse is in the store, has its
\* inverse cleared in its pending changes and is atomically linked with E, and
\* the plan of the following save(E) consists of the delete at E's path and
\* the writes that clear those inverses.
C6_DeleteClearsInverses ==
    Deleted =>
        /\ RelatedCleared(lastOp.call[1], lastOp.call[2])
        /\ PlanOf(lastOp.call[1])
             = {Entry(Path(lastOp.call[1]), Null)} \cup ClearingWrites(lastOp.call[1], lastOp.call[2])

\* the first half of C6 on its own
C6_RelatedCleared == Deleted => RelatedCleared(lastOp.call[1], lastOp.call[2])

\* the plan deletes e at its own path, writes nothing else at or below it, and
\* clears the inverse at every related record that is not itself deleted
DeletePlanned(e, read, plan) ==
    /\ Entry(Path(e), Null) \in plan
    /\ \A y \in plan : IsPrefix(Path(e), y.path) => y = Entry(Path(e), Null)
    /\ \A x \in WasRelated(e, read) :
          ~isDeleted[x.r] => InverseWrite(e, x.k, x.r[2], Null) \in plan

\* C6 as it holds: after deleteRecord of E, E.isDeleted is true, every record
\* that was related to E through a relation with an inverse is in the store,
\* has its inverse cleared in its pending changes and is atomically linked
\* with E; the plan of the following save(E) holds the delete at E's path, no
\* other write at or below it, and the inverse-clearing write of every related
\* record that is not deleted (next to other writes of the linked records,
\* such as their server timestamps and defaults).
C6_DeleteClearsInversesAmended ==
    Deleted =>
        /\ RelatedCleared(lastOp.call[1], lastOp.call[2])
        /\ DeletePlanned(lastOp.call[1], lastOp.call[2], PlanOf(lastOp.call[1]))

\* blog 1 was deleted while posts 1 and 2 were its members: both posts have
\* lost their blog
C6_Witness ==
    /\ Deleted
    /\ lastOp.call[1] = <<"blog", "1">>
    /\ [k |-> "posts", ids |-> {"1", "2"}] \in lastOp.call[2]
    /\ localBT[<<"post", "1">>].blog = Null
    /\ localBT[<<"post", "2">>].blog = Null

\* ------------------------------------------------------ saves (C8, C10)
\* what a caller assigns to a scalar attribute of a blog or a photo: a new
\* value or null to one that has no default, null to one that has; the
\* server sets the timestamps
ScalarInputs(t, a) ==
    IF t \in {"user", "post"} \/ Schema[t][a].serverTs THEN {}
    ELSE IF Schema[t][a].hasDefault THEN {Null}
    ELSE {"b", Null}

SetScalar(e, a, v) ==
    /\ v \in ScalarInputs(e[1], a)
    /\ SetAttr(e, a, v)

\* a to-one relationship that embeds is set to a record of the store or null
Embed(e, a, v) ==
    /\ Schema[e[1]][a].embedded
    /\ v \in {NullValue} \cup {ModelValue(x[1], x[2]) : x \in {x \in resident : EmbeddedType[x[1]]}}
    /\ SetBelongsTo(e, a, v)

\* a to-many relationship that embeds is set to an array of records of the store
EmbedMany(e, a, items) ==
    /\ Schema[e[1]][a].embedded
    /\ items \in ArraysOf(Schema[e[1]][a].target)
    /\ SetHasMany(e, a, items)

\* record.save(), with what the saved records read as before it
SaveTracked(e) == SaveStartAs(e, TRUE)

\* blog 1 is owned by user 1
OwnedBlog == [i \in Ids |-> IF i = "1" THEN "1" ELSE Undef]

\* the stores saves are tried in: a blog of the tree and its owner, a new blog
\* and a user of the tree, or a post of the tree and a new photo
InitSave ==
    \/ InitStore(SeedTree({<<"blog", "1">>, <<"user", "1">>}, OwnedBlog, NoRel, {}),
                 {<<"blog", "1">>, <<"user", "1">>})
    \/ InitStoreNew(SeedTree({<<"user", "1">>}, NoRel, NoRel, {}),
                    {<<"user", "1">>}, {<<"blog", "1">>})
    \/ InitStoreNew(SeedTree({<<"post", "1">>}, NoRel, NoRel, {}),
                    {<<"post", "1">>}, {<<"photo", "1">>})

NextSave ==
    \/ \E e \in Entities : \E a \in ScalarAttrs(e[1]) : \E v \in {"b", Null} : SetScalar(e, a, v)
    \/ \E e \in Entities : \E a \in BTAttrs(e[1]) :
          \E v \in {NullValue} \cup {ModelValue(t, i) : t \in Types, i \in Ids} : SetRelated(e, a, v)
    \/ \E e \in Entities : \E a \in BTAttrs(e[1]) :
          \E v \in {NullValue} \cup {ModelValue(t, i) : t \in Types, i \in Ids} : Embed(e, a, v)
    \/ \E e \in Entities : \E a \in HMAttrs(e[1]) :
          \E items \in ArraysOf(Schema[e[1]][a].target) : EmbedMany(e, a, items)
    \/ \E e \in Entities : DeleteStart(e)
    \/ \E e \in Entities : \E w \in deleting[e].keys : DeleteClear(e, w)
    \/ \E e \in Entities : DeleteFinish(e)
    \/ \E e \in Entities : SaveTracked(e)
    \/ SaveDone

SpecSave == InitSave /\ [][NextSave]_vars

\* a tracked save has completed: lastOp.call is <<the records saved, what
\* they read as when save was called>>
Saved == lastOp.op = "saved" /\ lastOp.call # <<>>

Repeated(y) ==
    \/ \E r \in Entities : \E a \in ScalarAttrs(r[1]) :
          /\ y.path = Append(Path(r), a)
          /\ \/ Schema[r[1]][a].serverTs /\ y.val = ServerTimestamp
             \/ Schema[r[1]][a].hasDefault /\ remoteS[r][a] = Undef /\ y.val = DefaultValue
    \/ \E r \in Entities : isDeleted[r] /\ y = Entry(Path(r), Null)
    \/ \E r \in Entities : \E a \in BTAttrs(r[1]) \cup HMAttrs(r[1]) :
          Schema[r[1]][a].embedded /\ IsPrefix(Append(Path(r), a), y.path)

NoLocalAttributes(e) ==
    /\ \A a \in ScalarAttrs(e[1]) : localS[e][a] = Undef
    /\ \A a \in BTAttrs(e[1]) : localBT[e][a] = Undef
    /\ \A a \in HMAttrs(e[1]) : ~localHM[e][a].def

\* get hasDirtyAttributes
HasDirtyAttributes(e) == ~NoLocalAttributes(e) \/ isNew[e] \/ isDeleted[e]

\* a dirtyType that looks at isNew before isDeleted
DirtyTypeNewFirst(e) ==
    IF isNew[e] THEN "created"
    ELSE IF isDeleted[e] THEN "deleted"
    ELSE IF HasDirtyAttributes(e) THEN "updated"
    ELSE "null"

\* get dirtyType
DirtyType(e) ==
    IF isDeleted[e] THEN "deleted"
    ELSE IF isNew[e] THEN "created"
    ELSE IF HasDirtyAttributes(e) THEN "updated"
    ELSE "null"

\* the flags of a saved record after its save
Settled(r) ==
    /\ NoLocalAttributes(r)
    /\ ~isNew[r]
    /\ ~isSaving[r]
    /\ ~isDeleted[r] => ~HasDirtyAttributes(r)

Kept(t) == {a \in AttrsOf(t) : ~(Schema[t][a].kind = "attr" /\ Schema[t][a].serverTs)}

\* reading a of r failed when save was called
Unreadable(r, a, before) == Schema[r[1]][a].kind = "attr" /\ before = "TypeMismatch"

\* a of r embedded a record that was deleted when save was called
EmbedsDeleted(r, a, before) ==
    /\ Schema[r[1]][a].kind = "belongsTo"
    /\ Schema[r[1]][a].embedded
    /\ before \in Ids
    /\ isDeleted[<<Schema[r[1]][a].target, before>>]

\* a of r had no value when save was called and read its default, and reads
\* after the save what the committed default parses to
Defaulted(r, a, before) ==
    /\ Schema[r[1]][a].kind = "attr"
    /\ before = DefaultDate
    /\ Reads(r)[a] = DefaultDateParsed

StaysNew(e) == FALSE

\* rollbackAttributes: if (this.isNew) this.isDeleted = true
RolledBackDeleted(e) == isNew[e]

\* a rollback that leaves the pending relationships
KeepsRelations(e) == localBT[e]

\* rollbackAttributes: this._localAttributes = {}, for the belongsTo keys
RolledBackRelations(e) == EmptyBT(e[1])

\* a rollback that also takes back what the sets of e wrote to the records
\* atomically linked with it, and the links
RollbackLinked(e) ==
    /\ Quiet
    /\ e \in resident
    /\ ~isDeleted[e]
    /\ localS' = [localS EXCEPT ![e] = EmptyS(e[1])]
    /\ localBT' = [o \in Entities |-> IF o \in linked[e] \cup {e} THEN EmptyBT(o[1]) ELSE localBT[o]]
    /\ localHM' = [o \in Entities |-> IF o \in linked[e] \cup {e} THEN EmptyHM(o[1]) ELSE localHM[o]]
    /\ linked' = [o \in Entities |-> IF o = e THEN {} ELSE linked[o] \ {e}]
    /\ isDeleted' = [isDeleted EXCEPT ![e] = RolledBackDeleted(e)]
    /\ lastOp' = Called("rollbackAttributes", "none", <<e>>)
    /\ UNCHANGED <<resident, loading, isNew, isSaving, remoteS, remoteBT, remoteHM,
                   embeddedIn, db, pathPrefix, saving, deleting>>

\* record.rollbackAttributes()
RollbackAttributes(e) ==
    /\ Quiet
    /\ e \in resident
    /\ IF isDeleted[e]
       THEN /\ lastOp' = Called("rollbackAttributes", "RollbackOfDeletedUnsupported", <<e>>)
            /\ UNCHANGED <<localS, localBT, localHM, isDeleted>>
       ELSE /\ localS' = [localS EXCEPT ![e] = EmptyS(e[1])]
            /\ localBT' = [localBT EXCEPT ![e] = RolledBackRelations(e)]
            /\ localHM' = [localHM EXCEPT ![e] = EmptyHM(e[1])]
            /\ isDeleted' = [isDeleted EXCEPT ![e] = RolledBackDeleted(e)]
            /\ lastOp' = Called("rollbackAttributes", "none", <<e>>)
    /\ UNCHANGED <<resident, loading, isNew, isSaving, remoteS, remoteBT, remoteHM,
                   linked, embeddedIn, db, pathPrefix, saving, deleting>>

\* blog.name = v, with what was called
Assign(e, a, v) ==
    /\ e[1] = "blog"
    /\ a = "name"
    /\ SetAttrAs(e, a, v, <<e, a, v>>)

\* blog.owner = v
SetOwner(e, v) ==
    /\ e[1] = "blog"
    /\ SetRelated(e, "owner", v)

\* blog.deleteRecord() up to its first await
DeleteBlog(e) ==
    /\ e[1] = "blog"
    /\ DeleteStart(e)

\* the stores records are rolled back in: a blog of the tree and its owner, or
\* a blog that was just made in a store over an empty tree
InitDirty ==
    \/ InitStore(SeedTree({<<"blog", "1">>, <<"user", "1">>}, OwnedBlog, NoRel, {}),
                 {<<"blog", "1">>, <<"user", "1">>})
    \/ InitStoreNew({}, {}, {<<"blog", "2">>})

NextDirty ==
    \/ \E e \in Entities : \E a \in ScalarAttrs(e[1]) : \E v \in {"b", Null} : Assign(e, a, v)
    \/ \E e \in Entities : \E v \in {NullValue} \cup {ModelValue(t, i) : t \in Types, i \in Ids} :
          SetOwner(e, v)
    \/ \E e \in Entities : RollbackAttributes(e)
    \/ \E e \in Entities : DeleteBlog(e)
    \/ \E e \in Entities : \E w \in deleting[e].keys : DeleteClear(e, w)
    \/ \E e \in Entities : DeleteFinish(e)
    \/ \E e \in Entities : SaveTracked(e)
    \/ SaveDone

SpecDirty == InitDirty /\ [][NextDirty]_vars

\* rollbackAttributes of e has just returned
RolledBack(e) == lastOp = Called("rollbackAttributes", "none", <<e>>)

\* C11: when rollbackAttributes has returned on a record that is new, the
\* record has no pending change and is deleted, its dirtyType is "deleted",
\* and _pathsToSave of it is the one delete at its own path
C11_RollbackOfNew ==
    \A e \in Entities :
        RolledBack(e) /\ isNew[e] =>
            /\ NoLocalAttributes(e)
            /\ isDeleted[e]
            /\ DirtyType(e) = "deleted"
            /\ PathsToSave(localS, e, <<>>).paths = {Entry(Path(e), Null)}

\* the new blog 2 was rolled back
C11_Witness ==
    /\ RolledBack(<<"blog", "2">>)
    /\ isNew[<<"blog", "2">>]
    /\ isDeleted[<<"blog", "2">>]
    /\ PlanOf(<<"blog", "2">>) = {Entry(<<"blogs", "2">>, Null)}

\* the keys of changedAttributes(): the keys of _localAttributes
ChangedAttributes(e) ==
    {a \in ScalarAttrs(e[1]) : localS[e][a] # Undef}
    \cup {a \in BTAttrs(e[1]) : localBT[e][a] # Undef}
    \cup {a \in HMAttrs(e[1]) : localHM[e][a].def}

\* what the attributes of e read as from _remoteAttributes and the defaults alone
RemoteReads(e) ==
    [a \in AttrsOf(e[1]) |->
        IF Schema[e[1]][a].kind = "attr"
        THEN (IF remoteS[e][a] # Undef THEN Deserialize(Codec(e[1], a), remoteS[e][a])
              ELSE IF Schema[e[1]][a].hasDefault THEN DefaultDate ELSE Null)
        ELSE IF Schema[e[1]][a].kind = "belongsTo"
        THEN (IF remoteBT[e][a] # Undef THEN remoteBT[e][a] ELSE Null)
        ELSE IF Schema[e[1]][a].embedded THEN "unread"
        ELSE {i \in Ids : remoteHM[e][a].val[i] = True}]

\* a record that is neither new nor deleted reads as committed after its rollback
RolledBackClean(e) ==
    /\ ChangedAttributes(e) = {}
    /\ Reads(e) = RemoteReads(e)
    /\ ~HasDirtyAttributes(e)
    /\ DirtyType(e) = "null"

Assigned(e) == lastOp.op = "setAttr" /\ lastOp.err = "none" /\ lastOp.call[1] = e

\* C13: in every state hasDirtyAttributes of a record is (it has a pending
\* change, or is new, or is deleted) and dirtyType is "deleted" if it is deleted,
\* else "created" if it is new, else "updated" if it has a pending change, else
\* null; so a record that was created reads "created", after its save null,
\* after a scalar set "updated", after the next save null
C13_DirtyState ==
    \A e \in resident :
        /\ HasDirtyAttributes(e) <=> (ChangedAttributes(e) # {} \/ isNew[e] \/ isDeleted[e])
        /\ DirtyType(e) = (IF isDeleted[e] THEN "deleted"
                           ELSE IF isNew[e] THEN "created"
                           ELSE IF ChangedAttributes(e) # {} THEN "updated"
                           ELSE "null")
        /\ (isNew[e] /\ ~isDeleted[e]) => DirtyType(e) = "created"
        /\ (Saved /\ e \in lastOp.call[1] /\ ~isDeleted[e]) => DirtyType(e) = "null"
        /\ (Assigned(e) /\ ~isNew[e] /\ ~isDeleted[e]) => DirtyType(e) = "updated"

\* blog 2 was made in the store, saved, and its name was then set
C13_Witness ==
    /\ Assigned(<<"blog", "2">>)
    /\ ~isNew[<<"blog", "2">>]
    /\ DbExists(db, <<"blogs", "2">>)
    /\ localS[<<"blog", "2">>].name = "b"
    /\ DirtyType(<<"blog", "2">>) = "updated"

\* ------------------------------------------- handler calls (C14, C15, C16)
\* how a read ended
ReadError(v) == IF v \in {"RecordDeleted", "TypeMismatch"} THEN v ELSE "none"

\* record[a] is read, for an attr attribute
GetAttr(e, a) ==
    /\ Quiet
    /\ e \in resident
    /\ a \in ScalarAttrs(e[1])
    /\ lastOp' = Called("getAttr", ReadError(AttrGet(e, a)), <<e, a, AttrGet(e, a)>>)
    /\ UNCHANGED <<resident, loading, isNew, isDeleted, isSaving, localS, localBT, localHM,
                   remoteS, remoteBT, remoteHM, linked, embeddedIn, db, pathPrefix, saving, deleting>>

\* what the getter g left
Got(g) == [st |-> g.st, err |-> g.err]

\* record[a] is read, for a belongsTo attribute
GetBelongsTo(e, a) ==
    /\ Quiet
    /\ e \in resident
    /\ a \in BTAttrs(e[1])
    /\ LandsAs(Got(BelongsToGet(Cur, e, a)), "getBelongsTo", <<e, a>>)
    /\ UNCHANGED <<resident, isNew, isDeleted, isSaving, remoteS, remoteBT, remoteHM,
                   db, pathPrefix, saving, deleting>>

\* record[a] is read, for a hasMany attribute
GetHasMany(e, a) ==
    /\ Quiet
    /\ e \in resident
    /\ a \in HMAttrs(e[1])
    /\ LandsAs(Got(HasManyGet(Cur, e, a)), "getHasMany", <<e, a>>)
    /\ UNCHANGED <<resident, isNew, isDeleted, isSaving, remoteS, remoteBT, remoteHM,
                   db, pathPrefix, saving, deleting>>

\* what a caller assigns to an attr attribute: a string, a number, a boolean,
\* a Date, null
Assignable == {"b", ANumber, ABoolean, ADate, Null}

\* blog[a] = v for an attr attribute, with what was called
AssignAttr(e, a, v) ==
    /\ e[1] = "blog"
    /\ SetAttrAs(e, a, v, <<e, a, v>>)

\* record[a] = v for a belongsTo attribute, with what was called
AssignBelongsToOf(e, a, v) ==
    /\ v \in LoadedValues(e, a)
    /\ SetBelongsToAs(e, a, v, <<e, a>>)

\* record[a] = items for a hasMany attribute, with what was called
AssignHasMany(e, a, items) ==
    /\ items \in ArraysOf(Schema[e[1]][a].target)
    /\ SetHasManyAs(e, a, items, <<e, a>>)

\* the store the handlers are called in: blog 1 and its owner
InitHandlers ==
    InitStore(SeedTree({<<"blog", "1">>, <<"user", "1">>}, OwnedBlog, NoRel, {}),
              {<<"blog", "1">>, <<"user", "1">>})

NextHandlers ==
    \/ \E e \in Entities : \E a \in ScalarAttrs(e[1]) : GetAttr(e, a)
    \/ \E e \in Entities : \E a \in BTAttrs(e[1]) : GetBelongsTo(e, a)
    \/ \E e \in Entities : \E a \in HMAttrs(e[1]) : GetHasMany(e, a)
    \/ \E e \in Entities : \E a \in ScalarAttrs(e[1]) : \E v \in Assignable : AssignAttr(e, a, v)
    \/ \E e \in Entities : \E a \in BTAttrs(e[1]) :
          \E v \in {NullValue} \cup {ModelValue(t, i) : t \in Types, i \in Ids} : AssignBelongsToOf(e, a, v)
    \/ \E e \in Entities : \E a \in HMAttrs(e[1]) :
          \E items \in ArraysOf(Schema[e[1]][a].target) : AssignHasMany(e, a, items)
    \/ \E e \in Entities : DeleteStart(e)
    \/ \E e \in Entities : \E w \in deleting[e].keys : DeleteClear(e, w)
    \/ \E e \in Entities : DeleteFinish(e)

SpecHandlers == InitHandlers /\ [][NextHandlers]_vars

\* the calls of the handlers
HandlerOps == {"getAttr", "setAttr", "getBelongsTo", "setBelongsTo", "getHasMany", "setHasMany"}

\* C14: a get or a set of an attr, belongsTo or hasMany attribute of a record
\* that is deleted fails with RecordDeleted and changes nothing of any record
C14_DeletedRejectsHandlers ==
    [][\A e \in Entities :
          (isDeleted[e] /\ lastOp'.op \in HandlerOps /\ lastOp'.call # <<>> /\ lastOp'.call[1] = e)
              => /\ lastOp'.err = "RecordDeleted"
                 /\ UNCHANGED <<resident, loading, isNew, isDeleted, isSaving, localS, localBT,
                                localHM, remoteS, remoteBT, remoteHM, linked, embeddedIn, db, pathPrefix>>]_vars

\* blog 1 was deleted, user 1 has its side of the relationship cleared, and
\* the owner of blog 1 was then assigned
C14_Witness ==
    /\ isDeleted[<<"blog", "1">>]
    /\ localBT[<<"user", "1">>].blog = Null
    /\ lastOp = Called("setBelongsTo", "RecordDeleted", <<<<"blog", "1">>, "owner">>)

\* what the attribute a of e is to read as: the pending value deserialized,
\* null for a pending clear, else the remote value deserialized, else the
\* default, else null
EffectiveScalar(e, a) ==
    IF localS[e][a] = Null THEN Null
    ELSE IF localS[e][a] # Undef THEN Deserialize(Codec(e[1], a), localS[e][a])
    ELSE IF remoteS[e][a] # Undef THEN Deserialize(Codec(e[1], a), remoteS[e][a])
    ELSE IF Schema[e[1]][a].hasDefault THEN DefaultDate
    ELSE Null

\* C15: an attr attribute of a record that is not deleted reads as the pending
\* value deserialized (null when null is pending), else the remote value
\* deserialized, else the default, else null; and right after record[a] = v
\* has returned, record[a] reads v, null included
C15_ScalarReads ==
    \A e \in resident : \A a \in ScalarAttrs(e[1]) :
        ~isDeleted[e] =>
            /\ AttrGet(e, a) = EffectiveScalar(e, a)
            /\ (Assigned(e) /\ lastOp.call[2] = a) => AttrGet(e, a) = lastOp.call[3]

\* record[a] = v has just failed on e
Refused(e) == lastOp.op = "setAttr" /\ lastOp.err # "none" /\ lastOp.call[1] = e

\* the serializer of a of e rejects the kind of v
Rejects(e, a, v) == v # Null /\ Serialize(Codec(e[1], a), v) = "TypeMismatch"

\* C16: record[a] = v with a value whose kind the serializer of a rejects fails
\* with TypeMismatch and leaves the pending changes as they were; a set that
\* succeeds leaves the serialized value pending for a
C16_SetValidates ==
    [][\A e \in Entities : \A a \in ScalarAttrs(e[1]) :
          (~isDeleted[e] /\ lastOp'.op = "setAttr" /\ lastOp'.call # <<>>
              /\ lastOp'.call[1] = e /\ lastOp'.call[2] = a)
          => /\ Rejects(e, a, lastOp'.call[3])
                  => /\ lastOp'.err = "TypeMismatch"
                     /\ UNCHANGED <<localS, localBT, localHM>>
             /\ lastOp'.err = "none"
                  => localS'[e][a] = IF lastOp'.call[3] = Null THEN Null
                                     ELSE Serialize(Codec(e[1], a), lastOp'.call[3])]_vars

\* a boolean was assigned to the name of blog 1, that has a pending owner
C16_Witness ==
    /\ lastOp = Called("setAttr", "TypeMismatch", <<<<"blog", "1">>, "name", ABoolean>>)
    /\ localBT[<<"blog", "1">>].owner = Null
    /\ localS[<<"blog", "1">>].createdDate = UTCString

\* ------------------------------------------ embedded records (C17 .. C20)
\* store.unloadRecord(photo): the record leaves the store
UnloadRecord(e) ==
    /\ Quiet
    /\ e \in resident
    /\ resident' = resident \ {e}
    /\ isNew' = [isNew EXCEPT ![e] = FALSE]
    /\ isDeleted' = [isDeleted EXCEPT ![e] = FALSE]
    /\ localS' = [localS EXCEPT ![e] = EmptyS(e[1])]
    /\ localBT' = [localBT EXCEPT ![e] = EmptyBT(e[1])]
    /\ localHM' = [localHM EXCEPT ![e] = EmptyHM(e[1])]
    /\ remoteS' = [remoteS EXCEPT ![e] = EmptyS(e[1])]
    /\ remoteBT' = [remoteBT EXCEPT ![e] = EmptyBT(e[1])]
    /\ remoteHM' = [remoteHM EXCEPT ![e] = EmptyHM(e[1])]
    /\ embeddedIn' = [embeddedIn EXCEPT ![e] = NoEntity]
    /\ lastOp' = Called("unloadRecord", "none", <<e>>)
    /\ UNCHANGED <<loading, isSaving, linked, db, pathPrefix, saving, deleting>>

\* photo.unloadRecord()
Unload(e) ==
    /\ EmbeddedType[e[1]]
    /\ UnloadRecord(e)

\* record.save(), with the record it was called on
SaveOf(e) == SaveCalled(e, FALSE, <<e>>)

\* photo.caption = v
SetCaption(e, v) ==
    /\ e[1] = "photo"
    /\ SetAttr(e, "caption", v)

\* photo.deleteRecord() (a photo has no relationship with an inverse) and
\* post.deleteRecord()
DeletePhoto(e) ==
    /\ e[1] \in {"photo", "post"}
    /\ DeleteStart(e)

\* store.pushRecord(recordClass, id, data) in the embedded getter of a hasMany:
\* the records of the keys `keys` of record[a] are in the store afterwards
Pushed(e, a, keys) == {<<Schema[e[1]][a].target, i>> : i \in keys} \ resident

\* what a pushed record holds: the payload below its key in the parent
PushedS(e, a, c) ==
    [k \in ScalarAttrs(c[1]) |->
        IF remoteHM[e][a].val[c[2]] = Object THEN DbValue(db, Path(e) \o <<a, c[2], k>>)
        ELSE Undef]

\* hasMany(..., { embedded: true }).handler(attribute).get: every key of the
\* merged map is a record of the store that is embedded in `record`
HasManyGetEmbedded(e, a) ==
    LET keys == SeqSet(HMAssign(remoteHM[e][a], localHM[e][a]).ord)
        new == Pushed(e, a, keys)
    IN /\ resident' = resident \cup new
       /\ remoteS' = [c \in Entities |-> IF c \in new THEN PushedS(e, a, c) ELSE remoteS[c]]
       /\ embeddedIn' = [c \in Entities |->
                            IF c[1] = Schema[e[1]][a].target /\ c[2] \in keys THEN e
                            ELSE embeddedIn[c]]

\* record[a] is read, for a hasMany attribute that embeds
ReadEmbeddedMany(e, a) ==
    /\ Quiet
    /\ e \in resident
    /\ a \in HMAttrs(e[1])
    /\ Schema[e[1]][a].embedded
    /\ IF isDeleted[e]
       THEN /\ lastOp' = Called("getHasMany", "RecordDeleted", <<e, a>>)
            /\ UNCHANGED <<resident, remoteS, embeddedIn>>
       ELSE /\ lastOp' = Called("getHasMany", "none", <<e, a>>)
            /\ HasManyGetEmbedded(e, a)
    /\ UNCHANGED <<loading, isNew, isDeleted, isSaving, localS, localBT, localHM,
                   remoteBT, remoteHM, linked, db, pathPrefix, saving, deleting>>

\* record[a] is read, for a belongsTo attribute that embeds
ReadEmbeddedOne(e, a) ==
    /\ Schema[e[1]][a].embedded
    /\ GetBelongsTo(e, a)

\* the store records are embedded in: a post of the tree and a new photo
InitEmbed ==
    InitStoreNew(SeedTree({<<"post", "1">>}, NoRel, NoRel, {}),
                 {<<"post", "1">>}, {<<"photo", "1">>})

NextEmbed ==
    \/ \E e \in Entities : \E a \in BTAttrs(e[1]) :
          \E v \in {NullValue} \cup {ModelValue(t, i) : t \in Types, i \in Ids} : Embed(e, a, v)
    \/ \E e \in Entities : \E a \in HMAttrs(e[1]) :
          \E items \in ArraysOf(Schema[e[1]][a].target) : EmbedMany(e, a, items)
    \/ \E e \in Entities : \E a \in BTAttrs(e[1]) : ReadEmbeddedOne(e, a)
    \/ \E e \in Entities : \E a \in HMAttrs(e[1]) : ReadEmbeddedMany(e, a)
    \/ \E e \in Entities : \E v \in {"b", Null} : SetCaption(e, v)
    \/ \E e \in Entities : DeletePhoto(e)
    \/ \E e \in Entities : \E w \in deleting[e].keys : DeleteClear(e, w)
    \/ \E e \in Entities : DeleteFinish(e)
    \/ \E e \in Entities : Unload(e)
    \/ \E e \in Entities : SaveOf(e)
    \/ SaveDone

SpecEmbed == InitEmbed /\ [][NextEmbed]_vars

\* the pending scalars of c are written somewhere under the path of p
WrittenUnder(c, p, plan) ==
    \A k \in ScalarAttrs(c[1]) :
        localS[c][k] # Undef =>
            \E y \in plan : /\ IsPrefix(Path(p), y.path)
                            /\ y.path[Len(y.path)] = k
                            /\ y.val = localS[c][k]

\* save() of the embedded record e did what save() of the record it is embedded
\* in does, or failed and wrote nothing when it is embedded in nothing
Delegated(e) ==
    IF embeddedIn[e] = NoEntity
    THEN /\ lastOp'.err = "CannotSaveDetachedEmbedded"
         /\ UNCHANGED <<db, pathPrefix, saving>>
    ELSE /\ lastOp'.err = PlanAll(localS, AtomicClosure(SaveRoot(embeddedIn[e])), {}).err
         /\ lastOp'.err = "none" =>
                /\ saving'.active
                /\ saving'.records = AtomicClosure(SaveRoot(embeddedIn[e]))
                /\ saving'.plan = PlanOf(embeddedIn[e])

\* C17: save() of an embedded record that is embedded in a record is the
\* save() of that record, and the pending scalars of the embedded record are
\* in its plan under the path of that record; save() of an embedded record
\* that is embedded in nothing fails with CannotSaveDetachedEmbedded and
\* nothing is written
C17_EmbeddedSaveDelegates ==
    [][\A e \in Entities :
          (EmbeddedType[e[1]] /\ lastOp'.op = "save" /\ lastOp'.call = <<e>>)
              => /\ Delegated(e)
                 /\ (embeddedIn[e] # NoEntity /\ lastOp'.err = "none")
                        => WrittenUnder(e, embeddedIn[e], saving'.plan)]_vars

\* c is the record an embedded relationship of p holds
Embeds(p, c) ==
    /\ p \in resident
    /\ ~isDeleted[p]
    /\ \/ \E a \in BTAttrs(p[1]) : /\ Schema[p[1]][a].embedded
                                    /\ Schema[p[1]][a].target = c[1]
                                    /\ EffBT(p, a) = c[2]
       \/ \E a \in HMAttrs(p[1]) : /\ Schema[p[1]][a].embedded
                                    /\ Schema[p[1]][a].target = c[1]
                                    /\ EffMember(p, a, c[2])

\* C18: a record of the store that an embedded relationship of a record P
\* holds is embedded in P (its _embeddedIn is P), so its save() goes through P
C18_EmbeddedInParent ==
    \A p \in Entities : \A c \in resident :
        Embeds(p, c) => embeddedIn[c] = p

\* a save has just been handed to the store with its plan
Planning == lastOp.op = "save" /\ lastOp.err = "none" /\ saving.active

\* the record the embedded belongsTo attribute a of p holds, when it is in the store
ToOneChild(p, a) == <<Schema[p[1]][a].target, EffBT(p, a)>>

HasToOneChild(p, a) ==
    /\ Schema[p[1]][a].embedded
    /\ EffBT(p, a) # Null
    /\ ToOneChild(p, a) \in resident

\* the plan holds the id of the child and its pending scalars below path/a
ChildPlanned(p, a, plan) ==
    /\ Entry(Path(p) \o <<a, "id">>, EffBT(p, a)) \in plan
    /\ \A k \in ScalarAttrs(ToOneChild(p, a)[1]) :
          localS[ToOneChild(p, a)][k] # Undef =>
              Entry(Path(p) \o <<a, k>>, localS[ToOneChild(p, a)][k]) \in plan

\* no path of the plan is below the collection of an embedded type
NoOwnPath(plan) ==
    \A y \in plan : \A t \in Types : EmbeddedType[t] => y.path[1] # PluralName[t]

\* C19: the plan of the save of a record P holds, for the child C of an
\* embedded belongsTo attribute a of P, P.path/a/id = C.id and every pending
\* scalar of C at P.path/a/<attr>, and no path of a plan is below the
\* collection of an embedded type
C19_EmbeddedToOnePlan ==
    Planning =>
        /\ \A p \in saving.records : \A a \in BTAttrs(p[1]) :
               HasToOneChild(p, a) => ChildPlanned(p, a, saving.plan)
        /\ NoOwnPath(saving.plan)

\* C19, for records that are not deleted: the plan of the save of a record P
\* that is not deleted holds, for the child C of an embedded belongsTo
\* attribute a of P that is in the store and not deleted, P.path/a/id = C.id
\* and every pending scalar of C at P.path/a/<attr>; no path of a plan is
\* below the collection of an embedded type
C19_EmbeddedToOnePlanAmended ==
    Planning =>
        /\ \A p \in saving.records : \A a \in BTAttrs(p[1]) :
               (HasToOneChild(p, a) /\ ~isDeleted[p] /\ ~isDeleted[ToOneChild(p, a)])
                   => ChildPlanned(p, a, saving.plan)
        /\ NoOwnPath(saving.plan)

\* a post has been saved with the photo that is its heroImage, whose caption
\* was pending
C19_Witness ==
    /\ Planning
    /\ <<"post", "1">> \in saving.records
    /\ HasToOneChild(<<"post", "1">>, "heroImage")
    /\ ~isDeleted[<<"post", "1">>]
    /\ ~isDeleted[<<"photo", "1">>]
    /\ localS[<<"photo", "1">>]["caption"] = "b"
    /\ Entry(<<"blog/posts", "1", "heroImage", "caption">>, "b") \in saving.plan

\* ------------------------------------------ members that are not loaded (C20)
\* the tree: a post that has a photo in its photos
MembersTree ==
    SeedTree({<<"post", "1">>}, NoRel, NoRel, {})
        \cup {Entry(<<"blog/posts", "1", "photos", "1", "caption">>, "a")}

\* the post was loaded from the tree, and setAttributesFrom pushed the photo of
\* its photos into the store; a second photo is new
InitMembers ==
    /\ db = MembersTree
    /\ pathPrefix = NoPrefix
    /\ resident = {<<"post", "1">>, <<"photo", "1">>, <<"photo", "2">>}
    /\ loading = {}
    /\ isNew = [e \in Entities |-> e = <<"photo", "2">>]
    /\ isDeleted = [e \in Entities |-> FALSE]
    /\ isSaving = [e \in Entities |-> FALSE]
    /\ localS = [e \in Entities |-> EmptyS(e[1])]
    /\ localBT = [e \in Entities |-> EmptyBT(e[1])]
    /\ localHM = [e \in Entities |-> EmptyHM(e[1])]
    /\ remoteS = [e \in Entities |->
                    IF e = <<"post", "1">> THEN SnapshotS(MembersTree, e)
                    ELSE IF e = <<"photo", "1">>
                    THEN [k \in ScalarAttrs("photo") |->
                            DbValue(MembersTree, <<"blog/posts", "1", "photos", "1", k>>)]
                    ELSE EmptyS(e[1])]
    /\ remoteBT = [e \in Entities |->
                    IF e = <<"post", "1">> THEN SnapshotBT(MembersTree, e) ELSE EmptyBT(e[1])]
    /\ remoteHM = [e \in Entities |->
                    IF e = <<"post", "1">> THEN SnapshotHM(MembersTree, e) ELSE EmptyHM(e[1])]
    /\ linked = [e \in Entities |-> {}]
    /\ embeddedIn = [e \in Entities |-> NoEntity]
    /\ saving = NoSave
    /\ deleting = [e \in Entities |-> NoDelete]
    /\ lastOp = Op("new Store", "none")

NextMembers ==
    \/ \E e \in Entities : \E a \in BTAttrs(e[1]) :
          \E v \in {NullValue} \cup {ModelValue(t, i) : t \in Types, i \in Ids} : Embed(e, a, v)
    \/ \E e \in Entities : \E a \in HMAttrs(e[1]) :
          \E items \in ArraysOf(Schema[e[1]][a].target) : EmbedMany(e, a, items)
    \/ \E e \in Entities : \E a \in HMAttrs(e[1]) : ReadEmbeddedMany(e, a)
    \/ SetCaption(<<"photo", "2">>, "b")
    \/ \E e \in Entities : Unload(e)
    \/ \E e \in Entities : SaveOf(e)
    \/ SaveDone

SpecMembers == InitMembers /\ [][NextMembers]_vars

\* an embedded relationship of p holds the id of a record that is not in the store
HoldsUnloaded(p) ==
    \/ \E a \in BTAttrs(p[1]) : /\ Schema[p[1]][a].embedded
                                 /\ EffBT(p, a) # Null
                                 /\ ~Peek(Schema[p[1]][a].target, EffBT(p, a))
    \/ \E a \in HMAttrs(p[1]) : /\ Schema[p[1]][a].embedded
                                 /\ \E i \in Ids : /\ EffMember(p, a, i)
                                                  /\ ~Peek(Schema[p[1]][a].target, i)

\* the save that was called failed with EmbeddedRecordNotLoaded and wrote nothing
FailsNotLoaded ==
    /\ lastOp'.err = "EmbeddedRecordNotLoaded"
    /\ UNCHANGED <<db, pathPrefix, saving>>

\* C20: the save of a record whose embedded to-one or to-many relationship
\* holds the id of a record that is not in the store fails with
\* EmbeddedRecordNotLoaded and nothing is written
C20_UnloadedChildFails ==
    [][\A p \in Entities :
          (lastOp'.op = "save" /\ lastOp'.call = <<p>> /\ ~EmbeddedType[p[1]] /\ HoldsUnloaded(p))
              => FailsNotLoaded]_vars

\* ------------------------------------ inverses and embedded records (C21)
\* bad.embeddedInverse = v
SetEmbeddedInverse(e, v) ==
    /\ e[1] = "bad"
    /\ v \in {NullValue} \cup {ModelValue("embeddedInverse", i) : i \in Ids}
    /\ SetBelongsToAs(e, "embeddedInverse", v, <<e, "embeddedInverse", v>>)

\* embeddedInverse.related = v
SetRelatedOfEmbedded(e, v) ==
    /\ e[1] = "embeddedInverse"
    /\ v \in {NullValue} \cup {ModelValue("bad", i) : i \in Ids}
    /\ SetBelongsToAs(e, "related", v, <<e, "related", v>>)

\* the store of the failure tests: the Bad and EmbeddedInverse records are new
InitInverseEmbedded ==
    InitStoreNew({}, {}, {"bad", "embeddedInverse"} \X Ids)

NextInverseEmbedded ==
    \/ \E e \in Entities : \E v \in {NullValue} \cup {ModelValue(t, i) : t \in Types, i \in Ids} :
          SetEmbeddedInverse(e, v)
    \/ \E e \in Entities : \E v \in {NullValue} \cup {ModelValue(t, i) : t \in Types, i \in Ids} :
          SetRelatedOfEmbedded(e, v)

SpecInverseEmbedded == InitInverseEmbedded /\ [][NextInverseEmbedded]_vars

\* the relationships of type t that have an inverse
InverseBT(t) == {a \in BTAttrs(t) : Schema[t][a].inverse # ""}
InverseHM(t) == {a \in HMAttrs(t) : Schema[t][a].inverse # ""}

\* C21: no record of an embedded type holds a pending value for a
\* relationship that has an inverse
C21_NoInverseOnEmbedded ==
    \A e \in resident :
        EmbeddedType[e[1]] =>
            /\ \A a \in InverseBT(e[1]) : localBT[e][a] = Undef
            /\ \A a \in InverseHM(e[1]) : ~localHM[e][a].def

\* --------------------------------------- the plan of a hasMany (C22)
\* the tree: a blog with one of two posts
PostsTree ==
    SeedTree({<<"blog", "1">>, <<"post", "1">>, <<"post", "2">>},
             NoRel, [i \in Ids |-> IF i = "1" THEN "1" ELSE Undef], {})

InitPosts == InitStore(PostsTree, {<<"blog", "1">>, <<"post", "1">>, <<"post", "2">>})

NextPosts ==
    \/ \E p \in Ids : \E v \in {NullValue} \cup {ModelValue("blog", i) : i \in Ids} :
          SetPostBlog(p, v)
    \/ \E b \in Ids : \E items \in ArraysOf("post") : SetBlogPosts(b, items)
    \/ \E e \in Entities : SaveOf(e)
    \/ SaveDone

SpecPosts == InitPosts /\ [][NextPosts]_vars

\* the hasMany attributes of type t that do not embed
PlainHM(t) == {a \in HMAttrs(t) : ~Schema[t][a].embedded}

\* the entries of the plan at and below the attribute a of p
AtCollection(p, a, plan) == {y \in plan : y.path = Append(Path(p), a)}
AtMembers(p, a, plan) ==
    {y \in plan : Len(y.path) = Len(Path(p)) + 2 /\ IsPrefix(Append(Path(p), a), y.path)}

\* C22: the plan of a save holds, for a hasMany attribute that does not
\* embed, no entry at path/attr, and an entry at path/attr/memberId only for
\* a member whose membership changes: true for one that is not a member of the
\* last-known collection, a delete for one that is
C22_MemberPathsOnly ==
    Planning =>
        \A p \in saving.records : \A a \in PlainHM(p[1]) :
            /\ AtCollection(p, a, saving.plan) = {}
            /\ \A y \in AtMembers(p, a, saving.plan) :
                  \/ y.val = True /\ remoteHM[p][a].val[y.path[Len(y.path)]] # True
                  \/ y.val = Null /\ remoteHM[p][a].val[y.path[Len(y.path)]] = True

\* C22, for the entries of the pending map: the plan of a save holds, for a
\* hasMany attribute that does not embed of a record that is not deleted, no
\* entry at path/attr, and at path/attr/memberId exactly the entries of the
\* pending map, each true or a delete
C22_MemberPathsOnlyAmended ==
    Planning =>
        \A p \in saving.records : \A a \in PlainHM(p[1]) :
            /\ AtCollection(p, a, saving.plan) = {}
            /\ \A y \in AtMembers(p, a, saving.plan) : y.val \in {True, Null}
            /\ ~isDeleted[p] =>
                  AtMembers(p, a, saving.plan) =
                      {Entry(Path(p) \o <<a, i>>, localHM[p][a].val[i]) :
                          i \in {i \in Ids : localHM[p][a].val[i] # Absent}}

\* a blog is saved whose posts lost the post they had and gained another
C22_Witness ==
    /\ Planning
    /\ <<"blog", "1">> \in saving.records
    /\ remoteHM[<<"blog", "1">>]["posts"].val["1"] = True
    /\ Entry(<<"blogs", "1", "posts", "1">>, Null) \in saving.plan
    /\ Entry(<<"blogs", "1", "posts", "2">>, True) \in saving.plan

\* ------------------------------------------------ find and peek (C24)
\* what store.findRecord and store.peekRecord return for e
Found(e) == IF e \in resident THEN "model" ELSE "promise"
Peeked(e) == IF e \in resident THEN "model" ELSE "null"

\* the caller's store.findRecord(recordClass, id), for any record
Find(e) ==
    /\ Quiet
    /\ ~EmbeddedType[e[1]]
    /\ loading' = FindRecord(Cur, e[1], e[2]).loading
    /\ lastOp' = Called("findRecord", "none", <<e, Found(e)>>)
    /\ UNCHANGED <<resident, isNew, isDeleted, isSaving, localS, localBT, localHM,
                   remoteS, remoteBT, remoteHM, linked, embeddedIn, db, pathPrefix, saving, deleting>>

\* the caller's store.peekRecord(recordClass, id)
PeekRecord(e) ==
    /\ Quiet
    /\ lastOp' = Called("peekRecord", "none", <<e, Peeked(e)>>)
    /\ UNCHANGED <<resident, loading, isNew, isDeleted, isSaving, localS, localBT, localHM,
                   remoteS, remoteBT, remoteHM, linked, embeddedIn, db, pathPrefix, saving, deleting>>

\* the tree: a blog and its owner; blog 2 and user 2 are not stored.  Nothing
\* is in the store yet.
InitFind ==
    InitStore(SeedTree({<<"blog", "1">>, <<"user", "1">>}, OwnedBlog, NoRel, {}), {})

FindTypes == {"blog", "user"}

NextFind ==
    \/ \E e \in Ent(FindTypes) : Find(e)
    \/ \E e \in Ent(FindTypes) : PeekRecord(e)
    \/ \E e \in Ent(FindTypes) : FetchDone(e)
    \/ \E e \in Ent(FindTypes) : UnloadRecord(e)
    \/ \E e \in Ent(FindTypes) : \E a \in BTAttrs(e[1]) : GetBelongsTo(e, a)

SpecFind == InitFind /\ [][NextFind]_vars

\* a fetch that is in flight completes
SpecFindFair == SpecFind /\ \A e \in Ent(FindTypes) : WF_vars(FetchDone(e))

\* findRecord returned the record when it was in the store, and a promise
\* whose fetch is in flight when it was not
FindReturns(e) ==
    IF e \in resident
    THEN lastOp'.call[2] = "model" /\ loading' = loading
    ELSE lastOp'.call[2] = "promise" /\ e \in loading'

\* peekRecord returned the record or null and changed nothing
PeekReturns(e) ==
    /\ lastOp'.call[2] = (IF e \in resident THEN "model" ELSE "null")
    /\ UNCHANGED <<resident, loading, db, pathPrefix>>

\* a fetch that ended left the record in the store or failed with NotFound
FetchEnds(e) ==
    (e \in loading /\ e \notin loading') =>
        \/ e \in resident' /\ lastOp'.err = "none"
        \/ e \notin resident' /\ lastOp'.err = "NotFound" /\ ~DbExists(db, Path(e))

\* C24: findRecord returns the record itself when it is in the store, else a
\* promise whose fetch is in flight and eventually ends with the record in the
\* store or with NotFound; peekRecord returns the record or null and starts no
\* fetch
C24_FindAndPeek ==
    /\ [][\A e \in Entities :
            /\ (lastOp'.op = "findRecord" /\ lastOp'.call[1] = e) => FindReturns(e)
            /\ (lastOp'.op = "peekRecord" /\ lastOp'.call[1] = e) => PeekReturns(e)
            /\ FetchEnds(e)]_vars
    /\ \A e \in Entities : (e \in loading) ~> (e \notin loading)

\* a fetch of a record of the tree has ended with the record in the store
C24_Witness ==
    /\ lastOp.op = "fetch"
    /\ lastOp.err = "none"
    /\ <<"blog", "1">> \in resident
    /\ <<"user", "2">> \in loading

\* ------------------------------------------------------- path prefix groups
\* store.pathPrefix[g] = p.  A fetch in flight keeps the reference it was
\* started with, so the prefix changes between fetches.
RegisterPrefix(g, p) ==
    /\ Quiet
    /\ loading = {}
    /\ pathPrefix' = [pathPrefix EXCEPT ![g] = p]
    /\ lastOp' = Called("pathPrefix", "none", <<g, p>>)
    /\ UNCHANGED <<resident, loading, isNew, isDeleted, isSaving, localS, localBT, localHM,
                   remoteS, remoteBT, remoteHM, linked, embeddedIn, db, saving, deleting>>

\* a create or find that the store refuses: nothing but the error
NotConfigured(op, e) ==
    /\ Quiet
    /\ lastOp' = Called(op, "ConfigurationError", <<e>>)
    /\ UNCHANGED <<resident, loading, isNew, isDeleted, isSaving, localS, localBT, localHM,
                   remoteS, remoteBT, remoteHM, linked, embeddedIn, db, pathPrefix, saving,
                   deleting>>

\* store.createRecord and store.findRecord of a type with a path prefix group
CreateInGroup(e) == IF PrefixMissing(e[1]) THEN NotConfigured("createRecord", e) ELSE CreateRecord(e)
FindInGroup(e) == IF PrefixMissing(e[1]) THEN NotConfigured("findRecord", e) ELSE Find(e)

SetText(e) == SetAttr(e, "text", "a")
SetCommentPost(e, v) == SetBelongsTo(e, "post", v)

CommentsTree == SeedTree({<<"post", "1">>}, NoRel, NoRel, {})

InitComments == InitStore(CommentsTree, {<<"post", "1">>})

NextComments ==
    \/ \E g \in Groups : \E p \in Prefixes : RegisterPrefix(g, p)
    \/ \E e \in Ent({"comment"}) : CreateInGroup(e)
    \/ \E e \in Ent({"comment"}) : FindInGroup(e)
    \/ \E e \in Ent({"comment"}) : FetchDone(e)
    \/ \E e \in Ent({"comment"}) : UnloadRecord(e)
    \/ \E e \in Ent({"comment"}) : SetText(e)
    \/ SetCommentPost(<<"comment", "1">>, ModelValue("post", "1"))
    \/ \E e \in Ent({"comment"}) : SaveOf(e)
    \/ SaveDone

SpecComments == InitComments /\ [][NextComments]_vars

\* the call of this step is a create or a find of e
CreatesOrFinds(e) ==
    /\ lastOp'.op \in {"createRecord", "findRecord"}
    /\ lastOp'.call[1] = e

\* the plan of the save in flight writes the comment c under the prefix of
\* its group, between the base path and the collection, and nowhere else
UnderPrefix(c) ==
    /\ \E x \in saving.plan :
          IsPrefix(pathPrefix["post"] \o <<"comments", c[2]>>, x.path)
    /\ \A x \in saving.plan : x.path[1] # "comments"

LinksCase == {<<"blog", "1">>, <<"blog", "2">>, <<"user", "1">>, <<"post", "1">>}

LinksTree ==
    SeedTree(LinksCase, OwnedBlog, [p \in Ids |-> IF p = "1" THEN "1" ELSE Undef], {<<"1", "1">>})

InitLinks == InitStore(LinksTree, LinksCase)

\* the records a caller deletes
LinksDeleted == {<<"blog", "1">>, <<"post", "1">>}

\* the relations with an inverse between the records of the scene
Inverses(t) == {a \in AttrsOf(t) : Schema[t][a].inverse # ""} \ {"comments"}

SetOneOf(e, a, v) ==
    /\ v.tag = "model" => v.type = Schema[e[1]][a].target
    /\ SetBelongsToAs(e, a, v, <<e>>)

SetManyOf(e, a, items) ==
    /\ items \in ArraysOf(Schema[e[1]][a].target)
    /\ SetHasManyAs(e, a, items, <<e>>)

PushOf(e, a, i) ==
    /\ Peek(Schema[e[1]][a].target, i)
    /\ PushAs(e, a, Item("model", Schema[e[1]][a].target, i), <<e>>)

PopOf(e, a) == PopAs(e, a, <<e>>)

NextLinks ==
    \/ \E e \in LinksCase : \E a \in Inverses(e[1]) \cap BTAttrs(e[1]) :
          \E v \in {NullValue} \cup {ModelValue(x[1], x[2]) : x \in LinksCase} : SetOneOf(e, a, v)
    \/ \E e \in LinksCase : \E a \in Inverses(e[1]) \cap HMAttrs(e[1]) :
          \E items \in ArraysOf(Schema[e[1]][a].target) : SetManyOf(e, a, items)
    \/ \E e \in LinksCase : \E a \in Inverses(e[1]) \cap HMAttrs(e[1]) :
          \E i \in Ids : PushOf(e, a, i)
    \/ \E e \in LinksCase : \E a \in Inverses(e[1]) \cap HMAttrs(e[1]) : PopOf(e, a)
    \/ \E e \in LinksDeleted : DeleteStart(e)
    \/ \E e \in LinksDeleted : \E w \in deleting[e].keys : DeleteClear(e, w)
    \/ \E e \in LinksDeleted : DeleteFinish(e)

SpecLinks == InitLinks /\ [][NextLinks]_vars

\* this step is a relation set, a view mutation or a step of deleteRecord on A
ActsOn(A) ==
    \/ /\ lastOp'.op \in {"setBelongsTo", "setHasMany", "push", "pop"}
       /\ lastOp'.call = <<A>>
    \/ /\ lastOp'.op \in {"deleteStart", "deleteClear"}
       /\ deleting'[A].active

\* the pending changes of o
Pending(o) == <<localS[o], localBT[o], localHM[o]>>

\* the records reachable from A through _atomicallyLinked after the step
LinkedAfter(A) == LET lk == linked' IN Reach({A}, lk)

\* C26: after a relation set, a view mutation or a deleteRecord on A, every
\* other record whose pending changes the call modified is reachable from A
\* through _atomicallyLinked, and _atomicallyLinked is symmetric.
C26_ModifiedAreLinked ==
    /\ [][\A A \in Entities : ActsOn(A) =>
             \A o \in Entities \ {A} : Pending(o)' # Pending(o) => o \in LinkedAfter(A)]_vars
    /\ [](\A x, y \in Entities : y \in linked[x] => x \in linked[y])


\* blog 2 has taken user 1 from blog 1: blog 1, the holder displaced, has lost
\* its owner in its pending changes and is reachable from blog 2
C26_Witness ==
    /\ lastOp = Called("setBelongsTo", "none", <<<<"blog", "2">>>>)
    /\ localBT[<<"user", "1">>].blog = "2"
    /\ localBT[<<"blog", "1">>].owner = Null
    /\ <<"blog", "1">> \in AtomicClosure(<<"blog", "2">>)
    /\ <<"blog", "1">> \notin linked[<<"blog", "2">>]


\* ------------------------------------------- members of an embedded hasMany
\* the last known map of a of p has members
HasKnownMembers(p, a) == \E j \in Ids : remoteHM[p][a].val[j] # Absent

\* i has been added to a of p, which has last known members, and is in the store
AddedMember(p, a, i) ==
    /\ Schema[p[1]][a].embedded
    /\ HasKnownMembers(p, a)
    /\ remoteHM[p][a].val[i] = Absent
    /\ localHM[p][a].val[i] = True
    /\ Peek(Schema[p[1]][a].target, i)

\* the plan holds every pending scalar of the member i below path/a/i
MemberPlanned(p, a, i, plan) ==
    \A k \in ScalarAttrs(Schema[p[1]][a].target) :
        localS[<<Schema[p[1]][a].target, i>>][k] # Undef =>
            Entry(Path(p) \o <<a, i, k>>, localS[<<Schema[p[1]][a].target, i>>][k]) \in plan

\* the last known member i has been removed from a of p
RemovedMember(p, a, i) ==
    /\ Schema[p[1]][a].embedded
    /\ remoteHM[p][a].val[i] # Absent
    /\ localHM[p][a].val[i] = Null

\* C27: the plan of the save of a record P holds, for every member added to
\* an embedded hasMany attribute a of P that has last known members, the
\* pending attributes of the member below P.path/a/<id>, and for every last
\* known member removed from a a delete of P.path/a/<id>
C27_EmbeddedMembersPlanned ==
    Planning =>
        \A p \in saving.records : \A a \in HMAttrs(p[1]) : \A i \in Ids :
            /\ AddedMember(p, a, i) => MemberPlanned(p, a, i, saving.plan)
            /\ RemovedMember(p, a, i) => Entry(Path(p) \o <<a, i>>, Null) \in saving.plan


\* ------------------------------------------------- reading a hasMany back
\* the ids of the records in the array a read of a of e returns: every key of
\* Object.assign({}, remote, local) if a is embedded, its keys with the value
\* true otherwise
ReadIds(rhm, lhm, e, a) ==
    IF Schema[e[1]][a].embedded
    THEN SeqSet(HMAssign(rhm[e][a], lhm[e][a]).ord)
    ELSE SeqSet(OrderedTrueKeys(HMAssign(rhm[e][a], lhm[e][a])))

SetMembers(e, a, items) ==
    /\ items \in ArraysOf(Schema[e[1]][a].target)
    /\ SetHasManyAs(e, a, items, <<e, a, items>>)

\* a post with a stored photo and a new one, or a blog with its posts
InitViews == InitMembers \/ InitPosts

\* the relations that are read back: the posts of a blog, the photos of a post
ViewAttrs == {"posts", "photos"}

NextViews ==
    \/ \E e \in Entities : \E a \in HMAttrs(e[1]) \cap ViewAttrs :
          \E items \in ArraysOf(Schema[e[1]][a].target) : SetMembers(e, a, items)
    \/ \E e \in Entities : SaveOf(e)
    \/ SaveDone

SpecViews == InitViews /\ [][NextViews]_vars

\* record[a] = items has just succeeded on e
MembersSet(e, a) ==
    /\ lastOp.op = "setHasMany"
    /\ lastOp.err = "none"
    /\ lastOp.call[1] = e
    /\ lastOp.call[2] = a

\* C28: a read of a hasMany attribute, embedded or not, that has just been set
\* to an array returns exactly the records of the array; a member that was
\* removed is in no array a read returns, neither while the removal is
\* pending nor when it has been saved
C28_ReadAfterWrite ==
    /\ [](\A e \in resident : \A a \in HMAttrs(e[1]) :
             /\ MembersSet(e, a) => ReadIds(remoteHM, localHM, e, a) = ItemIds(lastOp.call[3])
             /\ \A i \in Ids : localHM[e][a].val[i] = Null
                                  => i \notin ReadIds(remoteHM, localHM, e, a))
    /\ [][\A e \in saving.records : \A a \in HMAttrs(e[1]) : \A i \in Ids :
             (lastOp'.op = "saved" /\ localHM[e][a].val[i] = Null)
                 => i \notin ReadIds(remoteHM', localHM', e, a)]_vars


\* ------------------------------------------- the values a hasMany is set to
\* the array of the records with the ids of s, of their id strings, and the
\* { id: true } object of the same ids
RecordsOf(t, s) == ArrayValue([i \in 1..Len(s) |-> Item("model", t, s[i])])
StringsOf(t, s) == ArrayValue([i \in 1..Len(s) |-> Item("string", t, s[i])])
MapOf(s) ==
    [tag |-> "map", items |-> <<>>,
     map |-> [def |-> TRUE, ord |-> s,
              val |-> [i \in Ids |-> IF i \in SeqSet(s) THEN True ELSE Absent]]]

\* the sequences of ids of records of type t that are in the store
IdSeqs(t) == {[i \in 1..Len(x) |-> x[i].id] : x \in ArraysOf(t)}

SetBlogPostsTo(b, v) == SetHasManyTo(<<"blog", b>>, "posts", v, <<<<"blog", b>>, "posts", v>>)

NextValues ==
    \/ \E b \in Ids : \E s \in IdSeqs("post") : SetBlogPostsTo(b, RecordsOf("post", s))
    \/ \E b \in Ids : \E s \in IdSeqs("post") : SetBlogPostsTo(b, StringsOf("post", s))
    \/ \E b \in Ids : \E s \in IdSeqs("post") : SetBlogPostsTo(b, MapOf(s))
    \/ \E b \in Ids : SetBlogPostsTo(b, InvalidValue)
    \/ \E e \in Entities : SaveOf(e)
    \/ SaveDone

SpecValues == InitPosts /\ [][NextValues]_vars

\* what a set leaves behind: the pending memberships, the pending to-one
\* sides, the atomic links, and how it ended
Outcome(r) == <<r.st.lhm, r.st.lbt, r.st.linked, r.err>>

\* the step left what setting a of e to the records with the ids of s leaves
AsRecords(e, a, s) ==
    <<localHM', localBT', linked', lastOp'.err>>
        = Outcome(HasManySet(Cur, e, a, RecordsOf(Schema[e[1]][a].target, s)))

\* C29: setting a hasMany attribute to an array of id strings, or to an
\* { id: true } object, leaves the same pending membership, the same updates
\* of the inverse side and the same atomic links as setting it to the array
\* of the records with these ids; any value that is neither fails with
\* InvalidRelationValue
C29_IdsAndMapsAsRecords ==
    [][\A e \in resident : \A a \in HMAttrs(e[1]) :
          (lastOp'.op = "setHasMany" /\ Len(lastOp'.call) = 3
             /\ lastOp'.call[1] = e /\ lastOp'.call[2] = a)
          => /\ \A s \in IdSeqs(Schema[e[1]][a].target) :
                   lastOp'.call[3] \in {StringsOf(Schema[e[1]][a].target, s), MapOf(s)}
                       => AsRecords(e, a, s)
             /\ lastOp'.call[3].tag \notin {"array", "map"}
                   => lastOp'.err = "InvalidRelationValue"]_vars


\* ------------------------------------------------------ pending references
\* a post and two users in the tree; the post and a new photo are in the
\* store, the users are not
PendingTree == SeedTree({<<"post", "1">>, <<"user", "1">>, <<"user", "2">>}, NoRel, NoRel, {})

InitPending == InitStoreNew(PendingTree, {<<"post", "1">>}, {<<"photo", "1">>})

\* the relations to users that have no inverse and do not embed
Plain(t) == {a \in AttrsOf(t) : /\ Schema[t][a].kind \in {"belongsTo", "hasMany"}
                                /\ Schema[t][a].target = "user"
                                /\ Schema[t][a].inverse = ""
                                /\ ~Schema[t][a].embedded}

\* record[a] = store.findRecord(User, i) while the fetch is in flight, or null
SetToPending(e, a, v) ==
    /\ v.tag = "promise" => <<v.type, v.id>> \in loading
    /\ SetBelongsToAs(e, a, v, <<e, a, v>>)

\* record[a] = [...] of users that are in the store or being fetched
SetToPendingMany(e, a, items) ==
    /\ items \in ToManyArrays("user")
    /\ SetHasManyAs(e, a, items, <<e, a, ArrayValue(items)>>)

NextPending ==
    \/ \E e \in Ent({"user"}) : Find(e)
    \/ \E e \in Ent({"user"}) : FetchDone(e)
    \/ \E e \in resident : \E a \in Plain(e[1]) \cap BTAttrs(e[1]) :
          \E v \in {NullValue} \cup {PromiseValue("user", i) : i \in Ids} : SetToPending(e, a, v)
    \/ \E e \in resident : \E a \in Plain(e[1]) \cap HMAttrs(e[1]) :
          \E items \in ToManyArrays("user") : SetToPendingMany(e, a, items)

SpecPending == InitPending /\ [][NextPending]_vars

\* the step sets a of e, a relation without inverse, to v
SetsPlain(e, a, v) ==
    /\ lastOp'.op \in {"setBelongsTo", "setHasMany"}
    /\ lastOp'.call = <<e, a, v>>
    /\ a \in Plain(e[1])

\* C30: a pending reference is assigned to a belongsTo attribute without
\* inverse, and included in the array assigned to a hasMany attribute without
\* inverse, without the record being in the store: the call succeeds, the id
\* of the reference is the pending target, and the ids of the array are the
\* pending members
C30_PendingReferences ==
    [][\A e \in resident : \A a \in Plain(e[1]) :
          /\ \A i \in Ids :
                SetsPlain(e, a, PromiseValue("user", i))
                    => lastOp'.err = "none" /\ localBT'[e][a] = i
          /\ \A items \in ToManyArrays("user") :
                SetsPlain(e, a, ArrayValue(items))
                    => /\ lastOp'.err = "none"
                       /\ \A i \in Ids : (localHM'[e][a].val[i] = True) <=> i \in ItemIds(items)]_vars


\* ---------------------------------------------------- mutating a view
\* the set trap of an array that has no _record: Reflect.set and nothing else
MutateDetached ==
    /\ Quiet
    /\ lastOp' = Called("push", "none", <<NoEntity>>)
    /\ UNCHANGED <<resident, loading, isNew, isDeleted, isSaving, localS, localBT, localHM,
                   remoteS, remoteBT, remoteHM, linked, embeddedIn, db, pathPrefix, saving,
                   deleting>>

PushItem(e, a, i) ==
    /\ Peek(Schema[e[1]][a].target, i)
    /\ PushAs(e, a, Item("model", Schema[e[1]][a].target, i), <<e, a, i>>)

PopItem(e, a) == PopAs(e, a, <<e, a>>)

\* two blogs and two posts in the store, with every stored relation of a
\* post to a blog
InitMutate == InitOneMany

NextMutate ==
    \/ \E p \in Ids : \E v \in {NullValue} \cup {ModelValue("blog", i) : i \in Ids} :
          SetPostBlog(p, v)
    \/ \E b \in Ids : \E i \in Ids : PushItem(<<"blog", b>>, "posts", i)
    \/ \E b \in Ids : PopItem(<<"blog", b>>, "posts")
    \/ MutateDetached

SpecMutate == InitMutate /\ [][NextMutate]_vars

\* the array a read of a of e returns
ViewOf(e, a) == HasManyGet(Cur, e, a).items

\* the step left what record[a] = items leaves
AsSet(e, a, items) ==
    <<localHM', localBT', linked', lastOp'.err>> = Outcome(HasManySet(Cur, e, a, ArrayValue(items)))

\* C31: a push to, or a pop from, the array that a read of a hasMany attribute
\* returned leaves the pending membership of the owner, the inverse side of
\* the records added or removed and the atomic links as the setter called
\* with the resulting array leaves them; a push to an array that has no
\* owning record ends without error and changes no record
C31_ViewMutationAsSet ==
    [][/\ \A e \in resident : \A a \in HMAttrs(e[1]) :
             /\ \A i \in Ids :
                   (lastOp'.op = "push" /\ lastOp'.call = <<e, a, i>>)
                       => AsSet(e, a, Append(ViewOf(e, a), Item("model", Schema[e[1]][a].target, i)))
             /\ (lastOp'.op = "pop" /\ lastOp'.call = <<e, a>>)
                   => AsSet(e, a, WithoutLast([items |-> ViewOf(e, a)]))
       /\ (lastOp'.op = "push" /\ lastOp'.call = <<NoEntity>>)
             => /\ lastOp'.err = "none"
                /\ UNCHANGED <<resident, loading, isNew, isDeleted, localS, localBT, localHM,
                               remoteS, remoteBT, remoteHM, linked, embeddedIn>>]_vars

\* post 2, which was in blog 2, has been pushed to the posts of blog 1, next
\* to post 1: blog 2 has lost it and the three records are linked
C31_Witness ==
    /\ lastOp = Called("push", "none", <<<<"blog", "1">>, "posts", "2">>)
    /\ EffMember(<<"blog", "1">>, "posts", "1")
    /\ localHM[<<"blog", "1">>].posts.val["2"] = True
    /\ localHM[<<"blog", "2">>].posts.val["2"] = Null
    /\ localBT[<<"post", "2">>].blog = "1"
    /\ <<"blog", "2">> \in AtomicClosure(<<"blog", "1">>)

\* ------------------------------------------- defaults while planning (C32)
\* record.save() has just been called and has planned
SavePlans == lastOp'.op = "save"

\* _pathsToSave set the default of attribute a of e: a has a default, had
\* neither a pending nor a remote value, and its pending value is the
\* serialized default now
DefaultSet(e, a) ==
    /\ Schema[e[1]][a].hasDefault
    /\ localS[e][a] = Undef
    /\ remoteS[e][a] = Undef
    /\ localS'[e][a] = Serialize(Codec(e[1], a), DefaultDate)

\* a has a remote value and no pending one, and the plan of the save that
\* has just started writes nothing at its path
CommittedKept(e, a) ==
    (/\ saving'.active
     /\ e \in saving'.records
     /\ ~isDeleted[e]
     /\ remoteS[e][a] # Undef
     /\ localS[e][a] = Undef)
        => \A y \in saving'.plan : y.path # Append(Path(e), a)

\* C32: planning changes the pending value of an attr attribute that is not
\* a server timestamp only by setting the default of an attribute that has a
\* default and neither a pending nor a remote value; an attribute that has a
\* remote value and no pending one is not written by the plan, so a second
\* save of a fetched record leaves the committed value as it is
C32_DefaultsOnlyWhenUnset ==
    [][SavePlans =>
          \A e \in Entities : \A a \in ScalarAttrs(e[1]) :
              ~Schema[e[1]][a].serverTs =>
                  /\ localS'[e][a] # localS[e][a] => DefaultSet(e, a)
                  /\ CommittedKept(e, a)]_vars

\* blog 1 was saved once, which committed the default of createdDate; a
\* second save is planned and writes nothing at blogs/1/createdDate
C32_Witness ==
    /\ Planning
    /\ <<"blog", "1">> \in saving.records
    /\ ~isDeleted[<<"blog", "1">>]
    /\ remoteS[<<"blog", "1">>].createdDate = DefaultValue
    /\ localS[<<"blog", "1">>].createdDate = Undef
    /\ \A y \in saving.plan : y.path # <<"blogs", "1", "createdDate">>

\* --------------------------------------------- server timestamps (C33)
\* the attr attributes of type t that are set to the server's time on save
TimestampAttrs(t) == {a \in ScalarAttrs(t) : Schema[t][a].serverTs}

\* plan, that holds the plan of record e, writes the sentinel at every
\* server-timestamp attribute of e when e is not deleted, and writes nothing
\* at any of them when e is deleted
TimestampsIn(plan, e) ==
    \A a \in TimestampAttrs(e[1]) :
        IF isDeleted[e]
        THEN \A y \in plan : y.path # Append(Path(e), a)
        ELSE Entry(Append(Path(e), a), ServerTimestamp) \in plan

\* C33: the plan _pathsToSave computes for a record at its own path writes
\* the sentinel at every server-timestamp attribute when the record is not
\* deleted, whatever else is pending, and no timestamp when it is deleted;
\* the update a save hands to the database does so for every record saved
C33_TimestampOnEverySave ==
    /\ \A e \in resident :
          PathsToSave(localS, e, <<>>).err = "none"
              => TimestampsIn(PathsToSave(localS, e, <<>>).paths, e)
    /\ Planning => \A e \in saving.records : TimestampsIn(saving.plan, e)

\* blog 1 is saved with nothing pending, after a save that committed its
\* default: the update is the sentinel at blogs/1/updatedTime and nothing else
C33_Witness ==
    /\ Planning
    /\ ~isDeleted[<<"blog", "1">>]
    /\ remoteS[<<"blog", "1">>].updatedTime = ServerTime
    /\ saving.plan = {Entry(<<"blogs", "1", "updatedTime">>, ServerTimestamp)}

\* ------------------------------------------------ snapshots (C34, C35)
\* what a record of type t picks from the data at path p of object: the
\* values of the keys that are in its schema
DataS(object, t, p) == [k \in ScalarAttrs(t) |-> DbValue(object, Append(p, k))]
DataBT(object, t, p) ==
    [k \in BTAttrs(t) |->
        IF Schema[t][k].embedded THEN DbValue(object, p \o <<k, "id">>)
        ELSE DbValue(object, Append(p, k))]
DataHM(object, t, p) ==
    [k \in HMAttrs(t) |-> DbMap(object, Append(p, k), Schema[t][k].embedded)]

\* a setAttributesFrom that keeps the remote value of a key the object lacks
DataKept(object, t, p, old) ==
    [k \in ScalarAttrs(t) |->
        IF DbValue(object, Append(p, k)) = Undef THEN old[k]
        ELSE DbValue(object, Append(p, k))]

\* this._remoteAttributes = {}, then this._remoteAttributes[key] = object[key]
\* for the attr keys of the schema
RemoteFrom(object, t, p, old) == DataS(object, t, p)

\* this._embeddedRecords[key] !== undefined.  The records of
\* _embeddedRecords[key] are kept as the records of the target type in the
\* store: where snapshots are applied, a record of an embedded type is in
\* the store only because setAttributesFrom or the getter pushed it.
Tracking(e, k) == \E i \in Ids : Peek(Schema[e[1]][k].target, i)

\* the data setAttributesFrom hands to pushRecord and pushRecordData for
\* member i of the embedded hasMany key k: object[key] when some record was
\* loaded for the key before, object[key][id] when none was
MemberData(e, p, k, i) ==
    IF Tracking(e, k) THEN p \o <<k>> ELSE p \o <<k, i>>

\* store.pushRecord(recordClass, id, data) and store.pushRecordData(record,
\* data): the remote attributes of the record are what it picks from data
PushRecordData(object, c, p) ==
    [s |-> DataS(object, c[1], p), bt |-> DataBT(object, c[1], p), hm |-> DataHM(object, c[1], p)]

\* the records setAttributesFrom(object) pushes for e, each with the path,
\* in object, of the data it is pushed with
EmbeddedData(object, e) ==
    LET p == Path(e) IN
    UNION {{<<<<Schema[e[1]][k].target, i>>, MemberData(e, p, k, i)>> :
               i \in {i \in Ids : DbExists(object, p \o <<k, i>>)}} :
           k \in {k \in HMAttrs(e[1]) : Schema[e[1]][k].embedded}}
    \cup {<<<<Schema[e[1]][k].target, DbValue(object, p \o <<k, "id">>)>>, Append(p, k)>> :
           k \in {k \in BTAttrs(e[1]) : /\ Schema[e[1]][k].embedded
                                        /\ DbValue(object, p \o <<k, "id">>) # Undef}}

\* record.setAttributesFrom(object); store.pushRecord and pushRecordData give
\* the embedded record the data as its remote attributes, a record that was
\* not in the store is in it afterwards, neither new nor deleted
SetAttributesFrom(e, object) ==
    /\ Quiet
    /\ e \in resident
    /\ LET pushes == EmbeddedData(object, e)
           kids == {x[1] : x \in pushes}
           at(c) == (CHOOSE x \in pushes : x[1] = c)[2]
           fresh == kids \ resident
       IN /\ resident' = resident \cup kids
          /\ remoteS' = [c \in Entities |->
                           IF c = e THEN RemoteFrom(object, e[1], Path(e), remoteS[e])
                           ELSE IF c \in kids THEN PushRecordData(object, c, at(c)).s
                           ELSE remoteS[c]]
          /\ remoteBT' = [c \in Entities |->
                           IF c = e THEN DataBT(object, e[1], Path(e))
                           ELSE IF c \in kids THEN PushRecordData(object, c, at(c)).bt
                           ELSE remoteBT[c]]
          /\ remoteHM' = [c \in Entities |->
                           IF c = e THEN DataHM(object, e[1], Path(e))
                           ELSE IF c \in kids THEN PushRecordData(object, c, at(c)).hm
                           ELSE remoteHM[c]]
          /\ isNew' = [c \in Entities |-> isNew[c] /\ c \notin fresh]
          /\ isDeleted' = [c \in Entities |-> isDeleted[c] /\ c \notin fresh]
          /\ localS' = [c \in Entities |-> IF c \in fresh THEN EmptyS(c[1]) ELSE localS[c]]
          /\ localBT' = [c \in Entities |-> IF c \in fresh THEN EmptyBT(c[1]) ELSE localBT[c]]
          /\ localHM' = [c \in Entities |-> IF c \in fresh THEN EmptyHM(c[1]) ELSE localHM[c]]
    /\ lastOp' = Called("setAttributesFrom", "none", <<e, object>>)
    /\ UNCHANGED <<loading, isSaving, linked, embeddedIn, db, pathPrefix, saving, deleting>>

\* the objects handed to blog.setAttributesFrom: a name and a key that is
\* not in the schema, or a name and the post of posts
BlogObjects(e) ==
    {{Entry(Append(Path(e), "name"), "b"), Entry(Append(Path(e), "ignore-this"), "a")},
     {Entry(Append(Path(e), "name"), "a"), Entry(Path(e) \o <<"posts", "1">>, True)}}

\* what an object holds as the caption of photo i
CaptionOf(i) == IF i = "1" THEN "b" ELSE "a"

\* the photos of an object: any set of ids, each with its caption
PhotoMaps(e) ==
    {{Entry(Path(e) \o <<"photos", i, "caption">>, CaptionOf(i)) : i \in S} : S \in SUBSET Ids}

\* the objects handed to post.setAttributesFrom: photos or none and nothing
\* else, or a title, a key that is not in the schema and photo 1
PostObjects(e) ==
    PhotoMaps(e)
    \cup {{Entry(Append(Path(e), "title"), "b"), Entry(Append(Path(e), "ignore-this"), "a"),
           Entry(Path(e) \o <<"photos", "1", "caption">>, "a")}}

Objects(e) ==
    IF e[1] = "blog" THEN BlogObjects(e)
    ELSE IF e[1] = "post" THEN PostObjects(e)
    ELSE {}

\* blog 1 and post 1 were found; the post is stored with photo 1 or with no
\* photo, and setAttributesFrom pushed the photo it was found with
SnapshotTrees ==
    {SeedTree({<<"blog", "1">>, <<"post", "1">>}, NoRel, NoRel, {}) \cup m :
        m \in {{}, {Entry(<<"blog/posts", "1", "photos", "1", "caption">>, "a")}}}

InitSnapshot ==
    \E tree \in SnapshotTrees :
        LET R == {<<"blog", "1">>, <<"post", "1">>}
            kids == {<<"photo", i>> : i \in {i \in Ids :
                        DbExists(tree, <<"blog/posts", "1", "photos", i>>)}}
        IN /\ db = tree
           /\ pathPrefix = NoPrefix
           /\ resident = R \cup kids
           /\ loading = {}
           /\ isNew = [e \in Entities |-> FALSE]
           /\ isDeleted = [e \in Entities |-> FALSE]
           /\ isSaving = [e \in Entities |-> FALSE]
           /\ localS = [e \in Entities |-> EmptyS(e[1])]
           /\ localBT = [e \in Entities |-> EmptyBT(e[1])]
           /\ localHM = [e \in Entities |-> EmptyHM(e[1])]
           /\ remoteS = [e \in Entities |->
                           IF e \in R THEN SnapshotS(tree, e)
                           ELSE IF e \in kids
                           THEN DataS(tree, "photo", <<"blog/posts", "1", "photos", e[2]>>)
                           ELSE EmptyS(e[1])]
           /\ remoteBT = [e \in Entities |->
                           IF e \in R THEN SnapshotBT(tree, e) ELSE EmptyBT(e[1])]
           /\ remoteHM = [e \in Entities |->
                           IF e \in R THEN SnapshotHM(tree, e) ELSE EmptyHM(e[1])]
           /\ linked = [e \in Entities |-> {}]
           /\ embeddedIn = [e \in Entities |-> NoEntity]
           /\ saving = NoSave
           /\ deleting = [e \in Entities |-> NoDelete]
           /\ lastOp = Op("new Store", "none")

\* blog.name = v, and photo.caption = v on photo 1
SetPlain(e, a, v) ==
    /\ e \in {<<"blog", "1">>, <<"photo", "1">>}
    /\ a \in {"name", "caption"}
    /\ SetAttr(e, a, v)

\* post.blog = blog, or null
SetBlogOf(e, v) ==
    /\ e[1] = "post"
    /\ SetBelongsTo(e, "blog", v)

NextSnapshot ==
    \/ \E e \in Entities : \E object \in Objects(e) : SetAttributesFrom(e, object)
    \/ \E e \in Entities : \E a \in ScalarAttrs(e[1]) : SetPlain(e, a, "b")
    \/ \E e \in Entities : SetBlogOf(e, ModelValue("blog", "1"))
    \/ \E e \in Entities : ReadEmbeddedMany(e, "photos")

SpecSnapshot == InitSnapshot /\ [][NextSnapshot]_vars

\* record.setAttributesFrom(object) has just returned
SnapshotApplied == lastOp'.op = "setAttributesFrom"

\* the remote attributes of e are what object holds at the keys of the
\* schema: the value of a key it has, nothing for a key it lacks
RemoteIs(e, object) ==
    /\ \A k \in ScalarAttrs(e[1]) : remoteS'[e][k] = DbValue(object, Append(Path(e), k))
    /\ \A k \in {k \in BTAttrs(e[1]) : ~Schema[e[1]][k].embedded} :
          remoteBT'[e][k] = DbValue(object, Append(Path(e), k))
    /\ \A k \in HMAttrs(e[1]) : \A i \in Ids :
          remoteHM'[e][k].val[i] # Absent <=> DbExists(object, Path(e) \o <<k, i>>)

\* the pending changes of e are as they were, and what has one reads as before
PendingKept(e) ==
    /\ localS'[e] = localS[e]
    /\ localBT'[e] = localBT[e]
    /\ localHM'[e] = localHM[e]
    /\ \A a \in ScalarAttrs(e[1]) : localS[e][a] # Undef => AttrGet(e, a)' = AttrGet(e, a)
    /\ \A a \in BTAttrs(e[1]) : localBT[e][a] # Undef => EffBT(e, a)' = EffBT(e, a)
    /\ \A a \in HMAttrs(e[1]) : \A i \in Ids :
          localHM[e][a].val[i] # Absent => EffMember(e, a, i)' = EffMember(e, a, i)

\* C34: setAttributesFrom(object) leaves as the record's remote attributes
\* exactly what object holds at the keys of the schema (a key that is not in
\* the schema is dropped, a key object lacks has no remote value afterwards)
\* and leaves the pending changes as they were, so an attribute that has a
\* pending change reads as before
C34_SnapshotReplacesRemote ==
    [][\A e \in Entities :
          (SnapshotApplied /\ lastOp'.call[1] = e) =>
              RemoteIs(e, lastOp'.call[2]) /\ PendingKept(e)]_vars

\* blog 1, whose name was set to "b", was given an object with a key that is
\* not in the schema and no posts: the name is pending still
C34_Witness ==
    /\ lastOp.op = "setAttributesFrom"
    /\ lastOp.call[1] = <<"blog", "1">>
    /\ Entry(<<"blogs", "1", "ignore-this">>, "a") \in lastOp.call[2]
    /\ localS[<<"blog", "1">>].name = "b"
    /\ localHM[<<"blog", "1">>].posts.val["1"] = True
    /\ ~remoteHM[<<"blog", "1">>].posts.def

\* C35: when setAttributesFrom(object) has returned on a record, every id of
\* an embedded hasMany key of object is a record of the store whose remote
\* attributes are what object holds below that id, and is a key of the
\* record's remote map of the relationship
C35_EmbeddedMembersFromSnapshot ==
    lastOp.op = "setAttributesFrom" =>
        LET e == lastOp.call[1]
            object == lastOp.call[2]
        IN \A k \in {k \in HMAttrs(e[1]) : Schema[e[1]][k].embedded} :
               \A i \in {i \in Ids : DbExists(object, Path(e) \o <<k, i>>)} :
                   /\ Peek(Schema[e[1]][k].target, i)
                   /\ remoteHM[e][k].val[i] # Absent
                   /\ \A j \in ScalarAttrs(Schema[e[1]][k].target) :
                         remoteS[<<Schema[e[1]][k].target, i>>][j]
                             = DbValue(object, Path(e) \o <<k, i, j>>)

\* ------------------------------------------ sets during a delete (C36)
\* record[a] = v on a belongsTo attribute that has an inverse, called while
\* record.deleteRecord() is suspended: isDeleted is false still
SetDuring(e, a, v) ==
    /\ deleting[e].active
    /\ ~saving.active
    /\ e \in resident
    /\ a \in BTAttrs(e[1])
    /\ Schema[e[1]][a].inverse # ""
    /\ v \in LoadedValues(e, a)
    /\ LandsAs(BelongsToSet(Cur, e, a, v), "setBelongsTo", <<e, a, v>>)
    /\ UNCHANGED <<resident, isNew, isDeleted, isSaving, remoteS, remoteBT, remoteHM,
                   db, pathPrefix, saving, deleting>>

\* record[a] = items on a hasMany attribute that has an inverse, called while
\* record.deleteRecord() is suspended
SetManyDuring(e, a, items) ==
    /\ deleting[e].active
    /\ ~saving.active
    /\ e \in resident
    /\ a \in HMAttrs(e[1])
    /\ Schema[e[1]][a].inverse # ""
    /\ items \in ArraysOf(Schema[e[1]][a].target)
    /\ LandsAs(HasManySet(Cur, e, a, ArrayValue(items)), "setHasMany", <<e, a, items>>)
    /\ UNCHANGED <<resident, isNew, isDeleted, isSaving, remoteS, remoteBT, remoteHM,
                   db, pathPrefix, saving, deleting>>

\* the records of a tree with a blog, a user and a post
RaceCase == {<<"blog", "1">>, <<"user", "1">>, <<"post", "1">>}

\* the blog is owned by the user or by nobody, the post is in the blog or in
\* none, and any of the three records is in the store
InitRace ==
    \E o \in OwnerSeeds(RaceCase) : \E f \in PostBlogSeeds(RaceCase) : \E R \in SUBSET RaceCase :
        InitStore(SeedTree(RaceCase, o, f, {}), R)

NextRace ==
    \/ \E e \in Entities : DeleteStart(e)
    \/ \E e \in Entities : \E w \in deleting[e].keys : DeleteClear(e, w)
    \/ \E e \in Entities : DeleteFinish(e)
    \/ \E e \in Entities : FetchDone(e)
    \/ \E e \in Entities : \E a \in BTAttrs(e[1]) :
          \E v \in {NullValue} \cup {ModelValue(t, i) : t \in Types, i \in Ids} : SetDuring(e, a, v)
    \/ \E e \in Entities : \E a \in HMAttrs(e[1]) :
          \E items \in ArraysOf(Schema[e[1]][a].target) : SetManyDuring(e, a, items)

SpecRace == InitRace /\ [][NextRace]_vars

\* the inverse relationship a of o names e: a is a relationship with an
\* inverse to the type of e, and reads as e or as one that holds e
RefersTo(o, a, e) ==
    /\ Schema[o[1]][a].target = e[1]
    /\ IF Schema[o[1]][a].kind = "belongsTo" THEN EffBT(o, a) = e[2]
       ELSE EffMember(o, a, e[2])

\* C36: when deleteRecord has completed on a record and left it deleted, no
\* record of the store names it in a relationship that has an inverse,
\* whatever relationship the caller set on the record while deleteRecord was
\* suspended
C36_NoInverseToDeleted ==
    Deleted =>
        \A o \in resident \ {lastOp.call[1]} : \A a \in InverseKeys(o[1]) :
            ~RefersTo(o, a, lastOp.call[1])

\* -------------------------------------------- the frame of a rollback (C37)
\* every record but e is as it was: its pending changes and its isDeleted
OthersKept(e) ==
    \A o \in Entities \ {e} :
        /\ localS'[o] = localS[o]
        /\ localBT'[o] = localBT[o]
        /\ localHM'[o] = localHM[o]
        /\ isDeleted'[o] = isDeleted[o]

SetInvalidEmbed(e, v) ==
    /\ e[1] = "bad"
    /\ SetBelongsToAs(e, "invalidEmbedBelongsTo", v, <<e, v>>)

\* bad.invalidEmbedHasMany = items
SetInvalidEmbedMany(e, items) ==
    /\ e[1] = "bad"
    /\ SetHasManyAs(e, "invalidEmbedHasMany", items, <<e, items>>)

\* user.name = v
SetName(e, v) ==
    /\ e[1] = "user"
    /\ SetAttr(e, "name", v)

\* a record of Bad and two users, all made with createRecord
InitNotEmbeddable ==
    InitStoreNew({}, {}, {<<"bad", "1">>, <<"user", "1">>, <<"user", "2">>})

NextNotEmbeddable ==
    \/ \E e \in Entities : \E v \in {NullValue} \cup {ModelValue("user", i) : i \in Ids} :
          SetInvalidEmbed(e, v)
    \/ \E e \in Entities : \E items \in ArraysOf("user") : SetInvalidEmbedMany(e, items)
    \/ \E e \in Entities : SetName(e, "b")
    \/ \E e \in Entities : SaveOf(e)
    \/ SaveDone

SpecNotEmbeddable == InitNotEmbeddable /\ [][NextNotEmbeddable]_vars

\* C38: a record of the store whose type is not embeddable is embedded in
\* nothing, whatever embedding of it was refused, so its save() goes to the
\* store with the record itself: the update writes at its own path
C38_NotEmbeddableNotEmbedded ==
    \A e \in resident :
        ~EmbeddedType[e[1]] =>
            /\ embeddedIn[e] = NoEntity
            /\ SaveRoot(e) = e
            /\ (Planning /\ lastOp.call = <<e>>) => e \in saving.records

\* ------------------------------------------------ paths of one update (C39)
\* no two writes of plan are at the same path, or at a path and at one
\* below it
NoConflict(plan) ==
    \A x, y \in plan : x # y => ~IsPrefix(x.path, y.path)

\* the update a save of e would hand over now, when planning it does not throw
PlanIfAny(e) ==
    IF SaveRoot(e) = NoEntity
       \/ PlanAll(localS, AtomicClosure(SaveRoot(e)), {}).err # "none"
    THEN {}
    ELSE PlanOf(e)

\* C39: the update handed to the database by a save, and the update a save
\* of any record of the store would hand over, holds no two writes of which
\* one is at a path at or below the path of the other
C39_NoNestedPaths ==
    /\ Planning => NoConflict(saving.plan)
    /\ \A e \in resident : NoConflict(PlanIfAny(e))

\* post 1 is saved with photo 1 as its hero image and without photo 1 in its
\* photos, where it was: the update writes below heroImage and deletes the
\* member
C39_Witness ==
    /\ Planning
    /\ Entry(<<"blog/posts", "1", "heroImage", "id">>, "1") \in saving.plan
    /\ Entry(<<"blog/posts", "1", "photos", "1">>, Null) \in saving.plan

====
